---- MODULE Spec2Model ----
(***************************************************************************)
(* Model of the two real-time rendering engines of the Spatial Audio       *)
(* Framework examples: the binaural Ambisonic decoder (ambi_bin.c) and the *)
(* HRTF binauraliser (binauraliser.c).                                     *)
(*                                                                         *)
(* One engine instance is modelled per behaviour (eng is chosen in Init).  *)
(* The instance is the record h, whose fields carry the names of the       *)
(* fields of ambi_bin_data / binauraliser_data.  The audio thread executes *)
(* init / process / checkReInit as a sequence of steps (pc); the control   *)
(* thread executes configuration setters, each as one step, interleaved    *)
(* with the steps of the audio thread.                                     *)
(*                                                                         *)
(* Numbers: floats are fixed-point integers with ONE standing for 1.0;     *)
(* angles are held in quarter turns; one sample stands for one hop.  The   *)
(* model is of the build without ENABLE_FADE_IN_OUT (binauraliser.c does   *)
(* not compile with it: applyFadeIn is not declared there).                *)
(***************************************************************************)
EXTENDS Integers, Sequences, FiniteSets, TLC

VARIABLES eng,      \* "ambi_bin" or "binauraliser": which engine this instance is
          apple,    \* build variant of binauraliser_process (#ifdef __APPLE__)
          h,        \* the engine structure (pData)
          pc,       \* position of the audio thread
          call,     \* arguments and locals of the running audio-thread call
          outputs,  \* the caller's output buffers, nOutputs x FRAME_SIZE
          hist,     \* bookkeeping of the running call (history, not program state)
          nBlocks,  \* process calls made so far
          nSets     \* setter calls made so far

vars == <<eng, apple, h, pc, call, outputs, hist, nBlocks, nSets>>

(* ------------------------------ bounds -------------------------------- *)
MaxBlocks   == 2    \* process calls per behaviour
MaxSetCalls == 1    \* control-thread setter calls per behaviour
TIME_SLOTS  == 3    \* hops per block
HYBRID_BANDS == 1   \* subbands of the filterbank
MaxLen == 3          \* elements of a vector handed to a sort
MaxGrid == 2         \* directions of a grid
MaxTarget == 2       \* directions looked up in one call
MaxPaths == 2        \* setSofaFilePath calls before a destroy

(* ------------------------- program constants --------------------------- *)
NUM_EARS == 2
HOP_SIZE == 1
FRAME_SIZE == TIME_SLOTS * HOP_SIZE
MAX_SH_ORDER == 1
MAX_NUM_SH_SIGNALS == (MAX_SH_ORDER + 1) * (MAX_SH_ORDER + 1)
MAX_NUM_INPUTS == 2

\* values of a reinit flag
CLEAN == 0
REQUESTED == 1
IN_PROGRESS == 2

\* INPUT_ORDERS, NORM_TYPES, CH_ORDER
INPUT_OMNI == 1
INPUT_ORDER_FIRST == 2
NORM_N3D == 1
NORM_SN3D == 2
CH_ACN == 1
CH_FUMA == 2
INTERP_TRI == 1
INTERP_NEAREST == 2

\* fixed point
ONE == 1000
NAN == 999999999
INF == 999999998

Ears    == 0 .. (NUM_EARS - 1)
Bands   == 0 .. (HYBRID_BANDS - 1)
Slots   == 0 .. (TIME_SLOTS - 1)
Samples == 0 .. (FRAME_SIZE - 1)
ShChs   == 0 .. (MAX_NUM_SH_SIGNALS - 1)
SrcChs  == 0 .. (MAX_NUM_INPUTS - 1)

MIN(a, b) == IF a < b THEN a ELSE b
MAX(a, b) == IF a > b THEN a ELSE b

(* --------------------------- float arithmetic -------------------------- *)
IsNum(x) == x # NAN /\ x # INF /\ x # -INF

\* a + b
FAdd(a, b) ==
    IF a = NAN \/ b = NAN THEN NAN
    ELSE IF a = INF \/ a = -INF
         THEN (IF (b = INF \/ b = -INF) /\ b # a THEN NAN ELSE a)
    ELSE IF b = INF \/ b = -INF THEN b
    ELSE a + b

\* a * b for fixed-point a and b
FMul(a, b) ==
    IF a = NAN \/ b = NAN THEN NAN
    ELSE IF ~IsNum(a) \/ ~IsNum(b)
         THEN (IF a = 0 \/ b = 0 THEN NAN
               ELSE IF (a > 0) = (b > 0) THEN INF ELSE -INF)
    ELSE (a * b) \div ONE

\* sqrtf(2n+1) for the degrees the model reaches
SqrtOdd(n) == CASE n = 0 -> 1000 [] n = 1 -> 1732 [] OTHER -> 2236

\* 1.0f/sqrtf((float)n)
RSqrt(n) == CASE n = 0 -> INF [] n = 1 -> 1000 [] n = 2 -> 707 [] n = 3 -> 577
              [] OTHER -> 500

RECURSIVE FSum(_, _)
\* f[0] + ... + f[n-1]
FSum(f, n) == IF n <= 0 THEN 0 ELSE FAdd(FSum(f, n - 1), f[n - 1])

\* angles: degrees in, quarter turns stored
DEG2RAD(d) == IF d >= 0 THEN d \div 90 ELSE -((-d) \div 90)
RAD2DEG(r) == r * 90
Cos(r) == CASE r % 4 = 0 -> 1 [] r % 4 = 1 -> 0 [] r % 4 = 2 -> -1 [] OTHER -> 0
Sin(r) == CASE r % 4 = 0 -> 0 [] r % 4 = 1 -> 1 [] r % 4 = 2 -> 0 [] OTHER -> -1

\* 3x3 integer matrix product
Mat3Mul(A, B) == [i \in 0..2 |-> [j \in 0..2 |->
                    A[i][0] * B[0][j] + A[i][1] * B[1][j] + A[i][2] * B[2][j]]]

\* yawPitchRoll2Rzyx: R = Rx(roll) Ry(pitch) Rz(yaw)
yawPitchRoll2Rzyx(yaw, pitch, roll) ==
    LET Rz == [i \in 0..2 |-> [j \in 0..2 |->
                 CASE <<i, j>> = <<0, 0>> -> Cos(yaw)  [] <<i, j>> = <<0, 1>> -> Sin(yaw)
                   [] <<i, j>> = <<1, 0>> -> -Sin(yaw) [] <<i, j>> = <<1, 1>> -> Cos(yaw)
                   [] <<i, j>> = <<2, 2>> -> 1 [] OTHER -> 0]]
        Ry == [i \in 0..2 |-> [j \in 0..2 |->
                 CASE <<i, j>> = <<0, 0>> -> Cos(pitch) [] <<i, j>> = <<0, 2>> -> -Sin(pitch)
                   [] <<i, j>> = <<2, 0>> -> Sin(pitch) [] <<i, j>> = <<2, 2>> -> Cos(pitch)
                   [] <<i, j>> = <<1, 1>> -> 1 [] OTHER -> 0]]
        Rx == [i \in 0..2 |-> [j \in 0..2 |->
                 CASE <<i, j>> = <<1, 1>> -> Cos(roll)  [] <<i, j>> = <<1, 2>> -> Sin(roll)
                   [] <<i, j>> = <<2, 1>> -> -Sin(roll) [] <<i, j>> = <<2, 2>> -> Cos(roll)
                   [] <<i, j>> = <<0, 0>> -> 1 [] OTHER -> 0]]
    IN  Mat3Mul(Rx, Mat3Mul(Ry, Rz))

\* getSHrotMtxReal for order 1: 1 on the omni channel, Rxyz re-indexed to (y,z,x)
getSHrotMtxReal(Rxyz, nSH) ==
    LET ax(k) == CASE k = 1 -> 1 [] k = 2 -> 2 [] OTHER -> 0
    IN  [i \in 0 .. (nSH - 1) |-> [j \in 0 .. (nSH - 1) |->
           IF i = 0 \/ j = 0 THEN (IF i = j THEN 1 ELSE 0)
           ELSE Rxyz[ax(i)][ax(j)]]]

(* ------------------------- filterbank (afSTFT) ------------------------- *)
\* a filterbank handle: nCHin input channels, one hop of analysis memory per
\* input channel and one hop of synthesis memory per ear (its latency)
NoSTFT == [alloc |-> FALSE, nCHin |-> 0, ana |-> <<>>, syn |-> [e \in Ears |-> 0]]

afSTFTinit(nCHin) ==
    [alloc |-> TRUE, nCHin |-> nCHin,
     ana |-> [c \in 0 .. (nCHin - 1) |-> 0],
     syn |-> [e \in Ears |-> 0]]

\* the bins of this hop: every band carries the hop that entered one hop earlier
afSTFTforwardOut(fb) == [c \in 0 .. (fb.nCHin - 1) |-> [b \in Bands |-> fb.ana[c]]]
afSTFTforwardMem(fb, hop) == [fb EXCEPT !.ana = [c \in 0 .. (fb.nCHin - 1) |-> hop[c]]]

\* the hop leaving now is the one synthesised one hop earlier
afSTFTinverseOut(fb) == fb.syn
afSTFTinverseMem(fb, X) ==
    [fb EXCEPT !.syn = [e \in Ears |->
        LET s == FSum(X[e], HYBRID_BANDS)
        IN  IF IsNum(s) THEN s \div HYBRID_BANDS ELSE s]]

(* ------------------------- HRTF data and codec ------------------------- *)
SofaPaths == {"good.sofa", "bad.sofa"}

\* the dataset a rebuild ends up with: a file that cannot be loaded falls back
\* to the default set
LoadedSet(useDefault, path) ==
    IF useDefault = 0 /\ path = "good.sofa" THEN "sofa" ELSE "default"

\* gain of the ear-decode matrix for a dataset, band, ear and SH channel
DecGain(set, band, ear, ch) ==
    LET base == CASE ch = 0 -> 1000
                  [] ch = 1 -> (IF ear = 0 THEN 500 ELSE -500)
                  [] ch = 2 -> 250
                  [] OTHER  -> 750
    IN  (base * (IF set = "sofa" THEN 2 ELSE 1)) \div (band + 1)

\* ambi_bin_initTFT: the filterbank and its hop buffers are rebuilt for new_nSH channels
ambi_bin_initTFT(hh) ==
    [hh EXCEPT !.hSTFT = afSTFTinit(hh.new_nSH),
               !.tempHopFrameTD = [c \in 0 .. (MAX(NUM_EARS, hh.new_nSH) - 1) |-> 0],
               !.nSH = hh.new_nSH]

\* ambi_bin_initCodec: the HRTF set is (re)loaded and the decode matrix is rebuilt
\* for the order in effect
ambi_bin_initCodec(hh) ==
    LET set == LoadedSet(hh.useDefaultHRIRsFLAG, hh.sofa_filepath)
        nSH == (hh.order + 1) * (hh.order + 1)
    IN  [hh EXCEPT !.useDefaultHRIRsFLAG = IF set = "default" THEN 1 ELSE 0,
                   !.pars = [hrtf_fb |-> set,
                             M_dec |-> [b \in Bands |-> [e \in Ears |-> [c \in ShChs |->
                                 IF c < nSH THEN DecGain(set, b, e, c)
                                 ELSE hh.pars.M_dec[b][e][c]]]]]]

ZeroM  == [b \in Bands |-> [e \in Ears |-> [c \in ShChs |-> 0]]]
ZeroTF == [b \in Bands |-> [c \in ShChs |-> [t \in Slots |-> 0]]]
ZeroBin == [b \in Bands |-> [e \in Ears |-> [t \in Slots |-> 0]]]

(* ------------------------------ ambi_bin ------------------------------- *)
\* order selected by a preset (the switch of ambi_bin_setInputOrderPreset)
PresetOrder(p) == IF p = INPUT_OMNI THEN 0
                  ELSE IF p >= INPUT_ORDER_FIRST + 1 /\ p <= INPUT_ORDER_FIRST + 6
                       THEN p - INPUT_ORDER_FIRST + 1
                  ELSE 1

setInputOrderPresetOn(hh, newPreset) ==
    IF hh.orderSelected # newPreset
    THEN LET ord == PresetOrder(newPreset)
             nsh == (ord + 1) * (ord + 1)
         IN  [hh EXCEPT !.orderSelected = newPreset,
                        !.order = ord,
                        !.new_nSH = nsh,
                        !.reInitTFT = IF nsh # hh.nSH THEN REQUESTED ELSE hh.reInitTFT,
                        !.reInitCodec = REQUESTED]
    ELSE hh

\* what malloc may leave in the fields ambi_bin_create reads before writing them
Garbage == { [orderSelected |-> 0, order |-> 0, new_nSH |-> 1, enableEQ |-> 0],
             [orderSelected |-> INPUT_ORDER_FIRST, order |-> 0, new_nSH |-> 4, enableEQ |-> 1],
             [orderSelected |-> INPUT_ORDER_FIRST, order |-> 1, new_nSH |-> 1, enableEQ |-> 0] }

\* the structure after ambi_bin_create
ambi_bin_create(g) ==
    LET raw == [reInitCodec |-> REQUESTED, reInitTFT |-> REQUESTED,
                hSTFT |-> NoSTFT, tempHopFrameTD |-> <<>>,
                pars |-> [hrtf_fb |-> "none", M_dec |-> ZeroM],
                useDefaultHRIRsFLAG |-> 1, sofa_filepath |-> "no_file",
                chOrdering |-> CH_ACN, norm |-> NORM_N3D, rE_WEIGHT |-> 0,
                enableEQ |-> g.enableEQ,
                yaw |-> 0, pitch |-> 0, roll |-> 0,
                bFlipYaw |-> 0, bFlipPitch |-> 0, bFlipRoll |-> 0,
                orderSelected |-> g.orderSelected, order |-> g.order,
                new_nSH |-> g.new_nSH, nSH |-> g.new_nSH,
                interpolator |-> [t \in Slots |-> 0],
                SHframeTF |-> ZeroTF, prev_SHframeTF |-> ZeroTF,
                current_M |-> ZeroM, prev_M |-> ZeroM, binframeTF |-> ZeroBin]
        set == setInputOrderPresetOn(raw, INPUT_ORDER_FIRST)
    IN  [set EXCEPT !.nSH = set.new_nSH]

\* faulty variant: the ramp starts at 0 and stops short of 1
ambi_bin_initFromZero(hh) ==
    [hh EXCEPT !.interpolator = [t \in Slots |-> (t * ONE) \div TIME_SLOTS],
               !.current_M = ZeroM, !.prev_M = ZeroM, !.prev_SHframeTF = ZeroTF]

\* ambi_bin_init: the ramp and the zeroed matrices and subband history
ambi_bin_init(hh) ==
    [hh EXCEPT !.interpolator = [t \in Slots |-> ((t + 1) * ONE) \div TIME_SLOTS],
               !.current_M = ZeroM, !.prev_M = ZeroM, !.prev_SHframeTF = ZeroTF]

\* sample s of input channel i of the running call
InSample(c, i, s) == IF c.inVal = 0 THEN 0 ELSE c.inVal * (i + 1) + s

\* degree n of SH channel ch: n^2 <= ch < (n+1)^2
DegreeOf(ch) == CHOOSE n \in 0 .. ch : n * n <= ch /\ ch < (n + 1) * (n + 1)

\* faulty variant: the loop of degree n starts at channel 0
ambi_ScaleDegreesFromZero(c, ch) == {n \in 0 .. c.order : ch < (n + 1) * (n + 1)}

\* the degrees n of the SN3D case whose loop ch = o[n] .. o[n+1]-1, with
\* o[n] = n*n, reaches channel ch (lines 198, 221-222)
ambi_ScaleDegrees(c, ch) ==
    {n \in 0 .. c.order : n * n <= ch /\ ch < (n + 1) * (n + 1)}

RECURSIVE ambi_Scaled(_, _)
\* x after SHFrameTD[ch][i] *= sqrtf(2n+1) for every degree n of ns (line 224)
ambi_Scaled(x, ns) ==
    IF ns = {} THEN x
    ELSE LET n == CHOOSE m \in ns : \A k \in ns : m <= k
         IN  ambi_Scaled(FMul(x, SqrtOdd(n)), ns \ {n})

\* SHFrameTD after the load and the normalisation switch (lines 204-226)
ambi_SHFrameTD(c) ==
    [ch \in ShChs |-> [s \in Samples |->
        LET x == IF ch < MIN(MAX_NUM_SH_SIGNALS, c.nInputs) THEN InSample(c, ch, s) ELSE 0
        IN  IF c.norm = NORM_SN3D THEN ambi_Scaled(x, ambi_ScaleDegrees(c, ch)) ELSE x]]

\* tempHopFrameTD as the forward transform of hop t finds it: the first nSH
\* channels hold hop t of SHFrameTD, the others what the buffer held before
ambi_HopIn(hh, c, td, t) ==
    [ch \in DOMAIN hh.tempHopFrameTD |->
        IF ch < c.nSH THEN td[ch][t * HOP_SIZE] ELSE hh.tempHopFrameTD[ch]]

RECURSIVE ambi_AnaAt(_, _, _, _)
\* the filterbank when the forward transform of hop t is about to run
ambi_AnaAt(hh, c, td, t) ==
    IF t = 0 THEN hh.hSTFT
    ELSE afSTFTforwardMem(ambi_AnaAt(hh, c, td, t - 1), ambi_HopIn(hh, c, td, t - 1))

\* SHframeTF after the time-frequency transform (lines 228-238)
ambi_SHframeTF(hh, c, td) ==
    [b \in Bands |-> [ch \in ShChs |-> [t \in Slots |->
        IF ch < c.nSH THEN afSTFTforwardOut(ambi_AnaAt(hh, c, td, t))[ch][b]
        ELSE hh.SHframeTF[b][ch][t]]]]

\* faulty variant: the decoding matrix is taken over unrotated for every order
ambi_currentMUnrotated(hh, c) ==
    [b \in Bands |-> [e \in Ears |-> [j \in ShChs |->
       IF j >= c.nSH THEN hh.current_M[b][e][j] ELSE hh.pars.M_dec[b][e][j]]]]

\* current_M after "Define mixing matrix per band" (lines 240-262)
ambi_currentM(hh, c) ==
    LET M_rot == getSHrotMtxReal(yawPitchRoll2Rzyx(hh.yaw, hh.pitch, hh.roll), c.nSH)
    IN  [b \in Bands |-> [e \in Ears |-> [j \in ShChs |->
           IF j >= c.nSH THEN hh.current_M[b][e][j]
           ELSE IF c.order > 0
                THEN FSum([k \in 0 .. (c.nSH - 1) |-> hh.pars.M_dec[b][e][k] * M_rot[k][j]],
                          c.nSH)
                ELSE hh.pars.M_dec[b][e][j]]]]

\* (M x S)[ear][t] over the first nSH channels
MatTF(M, S, nSH, e, t) == FSum([k \in 0 .. (nSH - 1) |-> FMul(M[e][k], S[k][t])], nSH)

\* faulty variant: the mixer reads the tensor analysed in the running block
ambi_MixInputCurrent(hh, tf) == tf

\* the tensor both mixer products are formed with (lines 268 and 272)
ambi_MixInput(hh, tf) == hh.prev_SHframeTF

\* faulty variant: the ramp weights of the two products are exchanged
ambi_binframeTFSwapped(hh, c, curM, tf) ==
    LET S == ambi_MixInput(hh, tf)
    IN  [b \in Bands |-> [e \in Ears |-> [t \in Slots |->
           FAdd(FMul(MatTF(curM[b], S[b], c.nSH, e, t), ONE - hh.interpolator[t]),
                FMul(MatTF(hh.prev_M[b], S[b], c.nSH, e, t), hh.interpolator[t]))]]]

\* faulty variant: the product with the previous matrix is added unweighted
ambi_binframeTFUnweighted(hh, c, curM, tf) ==
    LET S == ambi_MixInput(hh, tf)
    IN  [b \in Bands |-> [e \in Ears |-> [t \in Slots |->
           FAdd(FMul(MatTF(curM[b], S[b], c.nSH, e, t), hh.interpolator[t]),
                MatTF(hh.prev_M[b], S[b], c.nSH, e, t))]]]

\* binframeTF after "mix to headphones" (lines 264-278)
ambi_binframeTF(hh, c, curM, tf) ==
    LET S == ambi_MixInput(hh, tf)
    IN  [b \in Bands |-> [e \in Ears |-> [t \in Slots |->
           FAdd(FMul(MatTF(curM[b], S[b], c.nSH, e, t), hh.interpolator[t]),
                FMul(MatTF(hh.prev_M[b], S[b], c.nSH, e, t), ONE - hh.interpolator[t]))]]]

RECURSIVE SynAt(_, _, _)
\* the filterbank when the inverse transform of hop t is about to run
SynAt(fb, binTF, t) ==
    IF t = 0 THEN fb
    ELSE afSTFTinverseMem(SynAt(fb, binTF, t - 1),
                          [e \in Ears |-> [b \in Bands |-> binTF[b][e][t - 1]]])

\* faulty variant: the ear signals are repeated on the channels above the ears
SynOutputsRepeated(fb, binTF, nOutputs) ==
    [ch \in 0 .. (nOutputs - 1) |-> [s \in Samples |->
        afSTFTinverseOut(SynAt(fb, binTF, s \div HOP_SIZE))[ch % NUM_EARS]]]

\* the output buffers after the inverse transform loop (lines 300-308, 266-278)
SynOutputs(fb, binTF, nOutputs) ==
    [ch \in 0 .. (nOutputs - 1) |-> [s \in Samples |->
        IF ch < MIN(NUM_EARS, nOutputs)
        THEN afSTFTinverseOut(SynAt(fb, binTF, s \div HOP_SIZE))[ch]
        ELSE 0]]

\* tempHopFrameTD after the last inverse transform of the block
SynHop(fb, binTF, hopBuf) ==
    [ch \in DOMAIN hopBuf |->
        IF ch < NUM_EARS THEN afSTFTinverseOut(SynAt(fb, binTF, TIME_SLOTS - 1))[ch]
        ELSE hopBuf[ch]]

\* faulty variant: the block ends without the copy for the next frame
ambi_bin_pipelineNoCopy(hh, c) ==
    LET td   == ambi_SHFrameTD(c)
        tf   == ambi_SHframeTF(hh, c, td)
        curM == ambi_currentM(hh, c)
        bin  == ambi_binframeTF(hh, c, curM, tf)
        fbA  == ambi_AnaAt(hh, c, td, TIME_SLOTS)
        hopA == ambi_HopIn(hh, c, td, TIME_SLOTS - 1)
    IN  [hh EXCEPT
           !.SHframeTF = tf,
           !.current_M = curM,
           !.binframeTF = bin,
           !.hSTFT = SynAt(fbA, bin, TIME_SLOTS),
           !.tempHopFrameTD = SynHop(fbA, bin, hopA)]

\* faulty variant: the copy for the next frame takes every channel
ambi_bin_pipelineCopyAll(hh, c) ==
    LET td   == ambi_SHFrameTD(c)
        tf   == ambi_SHframeTF(hh, c, td)
        curM == ambi_currentM(hh, c)
        bin  == ambi_binframeTF(hh, c, curM, tf)
        fbA  == ambi_AnaAt(hh, c, td, TIME_SLOTS)
        hopA == ambi_HopIn(hh, c, td, TIME_SLOTS - 1)
    IN  [hh EXCEPT
           !.SHframeTF = tf,
           !.current_M = curM,
           !.binframeTF = bin,
           !.prev_SHframeTF = [b \in Bands |-> [ch \in ShChs |->
                IF ch < c.nSH THEN tf[b][ch] ELSE [t \in Slots |-> 0]]],
           !.prev_M = [b \in Bands |-> [e \in Ears |-> [ch \in ShChs |->
                IF ch < c.nSH THEN curM[b][e][ch] ELSE 0]]],
           !.hSTFT = SynAt(fbA, bin, TIME_SLOTS),
           !.tempHopFrameTD = SynHop(fbA, bin, hopA)]

\* the structure after the processing branch of ambi_bin_process (lines 197-308)
ambi_bin_pipeline(hh, c) ==
    LET td   == ambi_SHFrameTD(c)
        tf   == ambi_SHframeTF(hh, c, td)
        curM == ambi_currentM(hh, c)
        bin  == ambi_binframeTF(hh, c, curM, tf)
        fbA  == ambi_AnaAt(hh, c, td, TIME_SLOTS)
        hopA == ambi_HopIn(hh, c, td, TIME_SLOTS - 1)
    IN  [hh EXCEPT
           !.SHframeTF = tf,
           !.current_M = curM,
           !.binframeTF = bin,
           !.prev_SHframeTF = [b \in Bands |-> [ch \in ShChs |->
                IF ch < c.nSH THEN tf[b][ch] ELSE hh.prev_SHframeTF[b][ch]]],
           !.prev_M = [b \in Bands |-> [e \in Ears |-> [ch \in ShChs |->
                IF ch < c.nSH THEN curM[b][e][ch] ELSE hh.prev_M[b][e][ch]]]],
           !.hSTFT = SynAt(fbA, bin, TIME_SLOTS),
           !.tempHopFrameTD = SynHop(fbA, bin, hopA)]

\* the output buffers the processing branch leaves
ambi_bin_pipelineOut(hh, c) ==
    LET td  == ambi_SHFrameTD(c)
        bin == ambi_binframeTF(hh, c, ambi_currentM(hh, c), ambi_SHframeTF(hh, c, td))
    IN  SynOutputs(ambi_AnaAt(hh, c, td, TIME_SLOTS), bin, c.nOutputs)

\* the processing branch stays inside its buffers: the loops over nSH channels
\* fit the hop buffer and the channels the filterbank was built for
InBounds(hh, nCh) == hh.hSTFT.alloc /\ nCh <= hh.hSTFT.nCHin
                       /\ nCh <= Cardinality(DOMAIN hh.tempHopFrameTD)

(* ---------------------------- binauraliser ----------------------------- *)
PRESET_DEFAULT == 1
PRESET_STEREO == 2

\* binauraliser_loadPreset: source count and directions of a preset
PresetCount(id) == IF id = PRESET_STEREO THEN 2 ELSE 1
PresetDirs(id, old) ==
    [ch \in SrcChs |->
        IF ch >= PresetCount(id) THEN old[ch]
        ELSE IF id = PRESET_STEREO THEN <<IF ch = 0 THEN 30 ELSE -30, 0>>
        ELSE <<0, 0>>]

ZeroIn   == [b \in Bands |-> [c \in SrcChs |-> [t \in Slots |-> 0]]]
ZeroHrtf == [c \in SrcChs |-> [b \in Bands |-> [e \in Ears |-> 0]]]

\* the structure after binauraliser_create
binauraliser_create ==
    [reInitHRTFsAndGainTables |-> REQUESTED, reInitTFT |-> REQUESTED,
     recalc_hrtf_interpFLAG |-> [c \in SrcChs |-> 1], recalc_M_rotFLAG |-> 1,
     hSTFT |-> NoSTFT,
     tempHopFrameTD |-> [c \in 0 .. (MAX(MAX_NUM_INPUTS, NUM_EARS) - 1) |-> 0],
     hrtf_fb |-> "none", useDefaultHRIRsFLAG |-> 1, sofa_filepath |-> "no_file",
     src_dirs_deg |-> PresetDirs(PRESET_DEFAULT, [c \in SrcChs |-> <<0, 0>>]),
     new_nSources |-> PresetCount(PRESET_DEFAULT),
     nSources |-> PresetCount(PRESET_DEFAULT),
     interpMode |-> INTERP_TRI,
     yaw |-> 0, pitch |-> 0, roll |-> 0,
     bFlipYaw |-> 0, bFlipPitch |-> 0, bFlipRoll |-> 0,
     useRollPitchYawFlag |-> 0, enableRotation |-> 0,
     src_dirs_rot_deg |-> [c \in SrcChs |-> <<0, 0>>],
     hrtf_interp |-> ZeroHrtf, inputframeTF |-> ZeroIn, outputframeTF |-> ZeroBin]

\* binauraliser_initTFT: the filterbank is rebuilt for new_nSources inputs
binauraliser_initTFT(hh) ==
    [hh EXCEPT !.hSTFT = afSTFTinit(hh.new_nSources), !.nSources = hh.new_nSources]

\* binauraliser_initHRTFsAndGainTables: the HRTF set and its tables are (re)loaded
binauraliser_initHRTFsAndGainTables(hh) ==
    LET set == LoadedSet(hh.useDefaultHRIRsFLAG, hh.sofa_filepath)
    IN  [hh EXCEPT !.hrtf_fb = set,
                   !.useDefaultHRIRsFLAG = IF set = "default" THEN 1 ELSE 0]

\* binauraliser_interpHRTFs: the interpolated HRTF of a direction
binauraliser_interpHRTFs(hh, azi, elev) ==
    LET a == IF hh.interpMode = INTERP_NEAREST THEN 90 * DEG2RAD(azi) ELSE azi
        g == IF hh.hrtf_fb = "sofa" THEN 2 ELSE 1
    IN  [b \in Bands |-> [e \in Ears |->
           (g * (ONE + (IF e = 0 THEN a ELSE -a) + 2 * elev)) \div (b + 1)]]

\* atan2 in degrees of a vector of the integer grid
Atan2Deg(y, x) == IF x > 0 /\ y = 0 THEN 0
                  ELSE IF y > 0 THEN (IF x > 0 THEN 45 ELSE IF x = 0 THEN 90 ELSE 135)
                  ELSE IF y < 0 THEN (IF x > 0 THEN -45 ELSE IF x = 0 THEN -90 ELSE -135)
                  ELSE IF x < 0 THEN 180 ELSE 0

\* rotated direction of source i (lines 221-236)
bin_RotDir(hh, i) ==
    LET R   == yawPitchRoll2Rzyx(hh.yaw, hh.pitch, hh.roll)
        az  == DEG2RAD(hh.src_dirs_deg[i][1])
        el  == DEG2RAD(hh.src_dirs_deg[i][2])
        xyz == [k \in 0..2 |-> CASE k = 0 -> Cos(el) * Cos(az)
                                 [] k = 1 -> Cos(el) * Sin(az)
                                 [] OTHER -> Sin(el)]
        rot == [j \in 0..2 |-> xyz[0] * R[0][j] + xyz[1] * R[1][j] + xyz[2] * R[2][j]]
        hyp == IF rot[0] # 0 \/ rot[1] # 0 THEN 1 ELSE 0
    IN  <<Atan2Deg(rot[1], rot[0]), Atan2Deg(rot[2], hyp)>>

\* inputframeTF after the load and the forward transform (lines 195-215)
bin_HopIn(hh, c, t) ==
    [ch \in DOMAIN hh.tempHopFrameTD |->
        IF ch < c.nSources
        THEN (IF ch < MIN(c.nSources, c.nInputs) THEN InSample(c, ch, t * HOP_SIZE) ELSE 0)
        ELSE hh.tempHopFrameTD[ch]]

RECURSIVE bin_AnaAt(_, _, _)
bin_AnaAt(hh, c, t) ==
    IF t = 0 THEN hh.hSTFT
    ELSE afSTFTforwardMem(bin_AnaAt(hh, c, t - 1), bin_HopIn(hh, c, t - 1))

bin_inputframeTF(hh, c) ==
    [b \in Bands |-> [ch \in SrcChs |-> [t \in Slots |->
        IF ch < c.nSources THEN afSTFTforwardOut(bin_AnaAt(hh, c, t))[ch][b]
        ELSE hh.inputframeTF[b][ch][t]]]]

\* the rotation branch is taken (line 220)
bin_Rotates(hh, c) == c.enableRotation # 0 /\ hh.recalc_M_rotFLAG # 0

\* recalc_hrtf_interpFLAG as the interpolation loop finds it
bin_RecalcIn(hh, c) ==
    [ch \in SrcChs |-> IF bin_Rotates(hh, c) /\ ch < c.nSources THEN 1
                       ELSE hh.recalc_hrtf_interpFLAG[ch]]

bin_rotDeg(hh, c) ==
    [ch \in SrcChs |-> IF bin_Rotates(hh, c) /\ ch < c.nSources THEN bin_RotDir(hh, ch)
                       ELSE hh.src_dirs_rot_deg[ch]]

\* hrtf_interp after the interpolation loop (lines 242-249)
bin_hrtf_interp(hh, c) ==
    [ch \in SrcChs |->
        IF ch < c.nSources /\ bin_RecalcIn(hh, c)[ch] # 0
        THEN (IF c.enableRotation # 0
              THEN binauraliser_interpHRTFs(hh, bin_rotDeg(hh, c)[ch][1], bin_rotDeg(hh, c)[ch][2])
              ELSE binauraliser_interpHRTFs(hh, hh.src_dirs_deg[ch][1], hh.src_dirs_deg[ch][2]))
        ELSE hh.hrtf_interp[ch]]

\* faulty variant: the sum is scaled by the number of inputs delivered
bin_outputframeTFByInputs(c, inTF, hrtf) ==
    [b \in Bands |-> [e \in Ears |-> [t \in Slots |->
        FMul(FSum([ch \in 0 .. (c.nSources - 1) |-> FMul(inTF[b][ch][t], hrtf[ch][b][e])],
                  c.nSources),
             RSqrt(c.nInputs))]]]

\* outputframeTF of a playing block (lines 241-260)
bin_outputframeTF(c, inTF, hrtf) ==
    [b \in Bands |-> [e \in Ears |-> [t \in Slots |->
        FMul(FSum([ch \in 0 .. (c.nSources - 1) |-> FMul(inTF[b][ch][t], hrtf[ch][b][e])],
                  c.nSources),
             RSqrt(c.nSources))]]]

\* the structure after the processing branch of binauraliser_process (lines 191-278)
binauraliser_pipeline(hh, c) ==
    LET inTF == bin_inputframeTF(hh, c)
        fbA  == bin_AnaAt(hh, c, TIME_SLOTS)
        hopA == bin_HopIn(hh, c, TIME_SLOTS - 1)
        hrtf == bin_hrtf_interp(hh, c)
        out  == IF c.isPlaying # 0 THEN bin_outputframeTF(c, inTF, hrtf) ELSE ZeroBin
        base == [hh EXCEPT !.inputframeTF = inTF, !.outputframeTF = out,
                           !.hSTFT = SynAt(fbA, out, TIME_SLOTS),
                           !.tempHopFrameTD = SynHop(fbA, out, hopA)]
    IN  IF c.isPlaying # 0
        THEN [base EXCEPT
                !.src_dirs_rot_deg = bin_rotDeg(hh, c),
                !.recalc_M_rotFLAG = IF bin_Rotates(hh, c) THEN 0 ELSE hh.recalc_M_rotFLAG,
                !.hrtf_interp = hrtf,
                !.recalc_hrtf_interpFLAG = [ch \in SrcChs |->
                    IF ch < c.nSources THEN 0 ELSE bin_RecalcIn(hh, c)[ch]]]
        ELSE base

binauraliser_pipelineOut(hh, c) ==
    LET inTF == bin_inputframeTF(hh, c)
        out  == IF c.isPlaying # 0
                THEN bin_outputframeTF(c, inTF, bin_hrtf_interp(hh, c)) ELSE ZeroBin
    IN  SynOutputs(bin_AnaAt(hh, c, TIME_SLOTS), out, c.nOutputs)

(* ------------------------------- setters ------------------------------- *)
IsAmbi == eng = "ambi_bin"
IsBin  == eng = "binauraliser"

getAngle(hh, axis, flip) == IF hh[flip] = 1 THEN -RAD2DEG(hh[axis]) ELSE RAD2DEG(hh[axis])

\* setYaw / setPitch / setRoll of either engine
setAngle(hh, axis, flip, newDeg) ==
    LET a == [hh EXCEPT ![axis] = IF hh[flip] = 1 THEN -DEG2RAD(newDeg) ELSE DEG2RAD(newDeg)]
    IN  IF IsBin THEN [a EXCEPT !.recalc_M_rotFLAG = 1] ELSE a

\* faulty variant: the flip state is stored and the angle left as it is
setFlipKeepsAngle(hh, axis, flip, newState) ==
    IF newState # hh[flip] THEN [hh EXCEPT ![flip] = newState] ELSE hh

\* setFlipYaw / setFlipPitch / setFlipRoll of either engine
setFlip(hh, axis, flip, newState) ==
    IF newState # hh[flip]
    THEN LET f == [hh EXCEPT ![flip] = newState]
         IN  setAngle(f, axis, flip, -getAngle(f, axis, flip))
    ELSE hh

\* refreshSettings of either engine
refreshSettings(hh) ==
    IF IsAmbi THEN [hh EXCEPT !.reInitCodec = REQUESTED, !.reInitTFT = REQUESTED]
    ELSE [hh EXCEPT !.reInitHRTFsAndGainTables = REQUESTED, !.reInitTFT = REQUESTED]

\* the flag a change of the HRTF set requests
CodecFlag == IF IsAmbi THEN "reInitCodec" ELSE "reInitHRTFsAndGainTables"

setUseDefaultHRIRsflag(hh, newState) ==
    IF hh.useDefaultHRIRsFLAG = 0 /\ newState # 0
    THEN [hh EXCEPT !.useDefaultHRIRsFLAG = newState, ![CodecFlag] = REQUESTED]
    ELSE hh

setSofaFilePath(hh, path) ==
    [hh EXCEPT !.sofa_filepath = path, !.useDefaultHRIRsFLAG = 0, ![CodecFlag] = REQUESTED]

\* faulty variant: the azimuth is clamped without the wrap
binauraliser_setSourceAzi_degClamped(hh, index, newAzi_deg) ==
    [hh EXCEPT !.recalc_hrtf_interpFLAG[index] = 1,
               !.src_dirs_deg[index][1] = MIN(MAX(newAzi_deg, -180), 180),
               !.recalc_M_rotFLAG = 1]

binauraliser_setSourceAzi_degOn(hh, index, newAzi_deg) ==
    LET w == IF newAzi_deg > 180 THEN newAzi_deg - 360 ELSE newAzi_deg
    IN  [hh EXCEPT !.recalc_hrtf_interpFLAG[index] = 1,
                   !.src_dirs_deg[index][1] = MIN(MAX(w, -180), 180),
                   !.recalc_M_rotFLAG = 1]

binauraliser_setSourceElev_degOn(hh, index, newElev_deg) ==
    [hh EXCEPT !.recalc_hrtf_interpFLAG[index] = 1,
               !.src_dirs_deg[index][2] = MIN(MAX(newElev_deg, -90), 90),
               !.recalc_M_rotFLAG = 1]

binauraliser_setNumSourcesOn(hh, new_nSources) ==
    LET n == IF new_nSources > MAX_NUM_INPUTS THEN MAX_NUM_INPUTS ELSE new_nSources
    IN  [hh EXCEPT !.new_nSources = n,
                   !.reInitTFT = IF hh.nSources # n THEN REQUESTED ELSE hh.reInitTFT,
                   !.recalc_M_rotFLAG = 1]

binauraliser_setInputConfigPresetOn(hh, newPresetID) ==
    LET n == PresetCount(newPresetID)
    IN  [hh EXCEPT !.src_dirs_deg = PresetDirs(newPresetID, hh.src_dirs_deg),
                   !.new_nSources = n,
                   !.reInitTFT = IF hh.nSources # n THEN REQUESTED ELSE hh.reInitTFT,
                   !.recalc_hrtf_interpFLAG = [c \in SrcChs |-> 1]]

binauraliser_setEnableRotationOn(hh, newState) ==
    [hh EXCEPT !.enableRotation = newState,
               !.recalc_hrtf_interpFLAG =
                   IF newState = 0 THEN [c \in SrcChs |-> 1] ELSE hh.recalc_hrtf_interpFLAG]

\* the set functions of ambi_bin, by name (lines 331-442)
ambi_bin_set(hh, what, v) ==
    CASE what = "UseDefaultHRIRsflag" -> setUseDefaultHRIRsflag(hh, v)
      [] what = "SofaFilePath"     -> setSofaFilePath(hh, v)
      [] what = "InputOrderPreset" -> setInputOrderPresetOn(hh, v)
      [] what = "ChOrder"          -> [hh EXCEPT !.chOrdering = v]
      [] what = "NormType"         -> [hh EXCEPT !.norm = v]
      [] what = "DecEnableMaxrE"   -> [hh EXCEPT !.rE_WEIGHT = v]
      [] what = "EnableEQ"         -> [hh EXCEPT !.enableEQ = v]
      [] what = "Yaw"              -> setAngle(hh, "yaw", "bFlipYaw", v)
      [] what = "Pitch"            -> setAngle(hh, "pitch", "bFlipPitch", v)
      [] what = "Roll"             -> setAngle(hh, "roll", "bFlipRoll", v)
      [] what = "FlipYaw"          -> setFlip(hh, "yaw", "bFlipYaw", v)
      [] what = "FlipPitch"        -> setFlip(hh, "pitch", "bFlipPitch", v)
      [] what = "FlipRoll"         -> setFlip(hh, "roll", "bFlipRoll", v)

\* the get functions of ambi_bin, by name (lines 446-526): each returns a field
ambi_bin_get(hh, what) ==
    CASE what = "UseDefaultHRIRsflag" -> hh.useDefaultHRIRsFLAG
      [] what = "SofaFilePath"     -> hh.sofa_filepath
      [] what = "InputOrderPreset" -> hh.orderSelected
      [] what = "ChOrder"          -> hh.chOrdering
      [] what = "NormType"         -> hh.norm
      [] what = "DecEnableMaxrE"   -> hh.rE_WEIGHT
      [] what = "EnableEQ"         -> hh.enableEQ
      [] what = "Yaw"              -> getAngle(hh, "yaw", "bFlipYaw")
      [] what = "Pitch"            -> getAngle(hh, "pitch", "bFlipPitch")
      [] what = "Roll"             -> getAngle(hh, "roll", "bFlipRoll")
      [] what = "FlipYaw"          -> hh.bFlipYaw
      [] what = "FlipPitch"        -> hh.bFlipPitch
      [] what = "FlipRoll"         -> hh.bFlipRoll

\* the set functions of the binauraliser, by name (lines 312-443)
binauraliser_set(hh, what, index, v) ==
    CASE what = "SourceAzi_deg"    -> binauraliser_setSourceAzi_degOn(hh, index, v)
      [] what = "SourceElev_deg"   -> binauraliser_setSourceElev_degOn(hh, index, v)
      [] what = "NumSources"       -> binauraliser_setNumSourcesOn(hh, v)
      [] what = "UseDefaultHRIRsflag" -> setUseDefaultHRIRsflag(hh, v)
      [] what = "SofaFilePath"     -> setSofaFilePath(hh, v)
      [] what = "EnableRotation"   -> binauraliser_setEnableRotationOn(hh, v)
      [] what = "Yaw"              -> setAngle(hh, "yaw", "bFlipYaw", v)
      [] what = "Pitch"            -> setAngle(hh, "pitch", "bFlipPitch", v)
      [] what = "Roll"             -> setAngle(hh, "roll", "bFlipRoll", v)
      [] what = "FlipYaw"          -> setFlip(hh, "yaw", "bFlipYaw", v)
      [] what = "FlipPitch"        -> setFlip(hh, "pitch", "bFlipPitch", v)
      [] what = "FlipRoll"         -> setFlip(hh, "roll", "bFlipRoll", v)
      [] what = "RPYflag"          -> [hh EXCEPT !.useRollPitchYawFlag = v]
      [] what = "InterpMode"       -> [hh EXCEPT !.interpMode = v]

\* the get functions of the binauraliser, by name (lines 447-589)
binauraliser_get(hh, what, index) ==
    CASE what = "SourceAzi_deg"    -> hh.src_dirs_deg[index][1]
      [] what = "SourceElev_deg"   -> hh.src_dirs_deg[index][2]
      [] what = "NumSources"       -> hh.new_nSources
      [] what = "UseDefaultHRIRsflag" -> hh.useDefaultHRIRsFLAG
      [] what = "SofaFilePath"     -> hh.sofa_filepath
      [] what = "EnableRotation"   -> hh.enableRotation
      [] what = "Yaw"              -> getAngle(hh, "yaw", "bFlipYaw")
      [] what = "Pitch"            -> getAngle(hh, "pitch", "bFlipPitch")
      [] what = "Roll"             -> getAngle(hh, "roll", "bFlipRoll")
      [] what = "FlipYaw"          -> hh.bFlipYaw
      [] what = "FlipPitch"        -> hh.bFlipPitch
      [] what = "FlipRoll"         -> hh.bFlipRoll
      [] what = "RPYflag"          -> hh.useRollPitchYawFlag
      [] what = "InterpMode"       -> hh.interpMode

\* inputs the control thread draws its setter arguments from
AngleInputs  == {0, 90}
FlagInputs   == {0, 1}
PresetInputs == {0, INPUT_OMNI, INPUT_ORDER_FIRST}
AziInputs    == {190}
ElevInputs   == {100}
CountInputs  == 0 .. (MAX_NUM_INPUTS + 1)

\* one setter call of the control thread: the structure becomes hh
Ctl(hh) ==
    /\ pc \notin {"created", "ret", "fault"}
    /\ nSets < MaxSetCalls
    /\ h' = hh
    /\ nSets' = nSets + 1
    /\ hist' = [hist EXCEPT !.setDuring = TRUE]
    /\ UNCHANGED <<eng, apple, pc, call, outputs, nBlocks>>

ambi_bin_refreshSettings == IsAmbi /\ Ctl(refreshSettings(h))
ambi_bin_setUseDefaultHRIRsflag ==
    IsAmbi /\ \E v \in FlagInputs : Ctl(setUseDefaultHRIRsflag(h, v))
ambi_bin_setSofaFilePath == IsAmbi /\ \E p \in SofaPaths : Ctl(setSofaFilePath(h, p))
ambi_bin_setInputOrderPreset ==
    IsAmbi /\ \E p \in PresetInputs : Ctl(setInputOrderPresetOn(h, p))
ambi_bin_setChOrder == IsAmbi /\ \E v \in {CH_ACN, CH_FUMA} : Ctl([h EXCEPT !.chOrdering = v])
ambi_bin_setNormType == IsAmbi /\ \E v \in {NORM_N3D, NORM_SN3D} : Ctl([h EXCEPT !.norm = v])
ambi_bin_setDecEnableMaxrE == IsAmbi /\ \E v \in FlagInputs : Ctl([h EXCEPT !.rE_WEIGHT = v])
ambi_bin_setEnableEQ == IsAmbi /\ \E v \in FlagInputs : Ctl([h EXCEPT !.enableEQ = v])
ambi_bin_setYaw   == IsAmbi /\ \E d \in AngleInputs : Ctl(setAngle(h, "yaw", "bFlipYaw", d))
ambi_bin_setPitch == IsAmbi /\ \E d \in AngleInputs : Ctl(setAngle(h, "pitch", "bFlipPitch", d))
ambi_bin_setRoll  == IsAmbi /\ \E d \in AngleInputs : Ctl(setAngle(h, "roll", "bFlipRoll", d))
ambi_bin_setFlipYaw   == IsAmbi /\ \E v \in FlagInputs : Ctl(setFlip(h, "yaw", "bFlipYaw", v))
ambi_bin_setFlipPitch == IsAmbi /\ \E v \in FlagInputs : Ctl(setFlip(h, "pitch", "bFlipPitch", v))
ambi_bin_setFlipRoll  == IsAmbi /\ \E v \in FlagInputs : Ctl(setFlip(h, "roll", "bFlipRoll", v))

binauraliser_refreshSettings == IsBin /\ Ctl(refreshSettings(h))
binauraliser_setSourceAzi_deg ==
    IsBin /\ \E i \in SrcChs, a \in AziInputs : Ctl(binauraliser_setSourceAzi_degOn(h, i, a))
binauraliser_setSourceElev_deg ==
    IsBin /\ \E i \in SrcChs, a \in ElevInputs : Ctl(binauraliser_setSourceElev_degOn(h, i, a))
binauraliser_setNumSources ==
    IsBin /\ \E n \in CountInputs : Ctl(binauraliser_setNumSourcesOn(h, n))
binauraliser_setUseDefaultHRIRsflag ==
    IsBin /\ \E v \in FlagInputs : Ctl(setUseDefaultHRIRsflag(h, v))
binauraliser_setSofaFilePath == IsBin /\ \E p \in SofaPaths : Ctl(setSofaFilePath(h, p))
binauraliser_setInputConfigPreset ==
    IsBin /\ \E id \in {PRESET_DEFAULT, PRESET_STEREO} :
                Ctl(binauraliser_setInputConfigPresetOn(h, id))
binauraliser_setEnableRotation ==
    IsBin /\ \E v \in FlagInputs : Ctl(binauraliser_setEnableRotationOn(h, v))
binauraliser_setYaw   == IsBin /\ \E d \in AngleInputs : Ctl(setAngle(h, "yaw", "bFlipYaw", d))
binauraliser_setPitch == IsBin /\ \E d \in AngleInputs : Ctl(setAngle(h, "pitch", "bFlipPitch", d))
binauraliser_setRoll  == IsBin /\ \E d \in AngleInputs : Ctl(setAngle(h, "roll", "bFlipRoll", d))
binauraliser_setFlipYaw   == IsBin /\ \E v \in FlagInputs : Ctl(setFlip(h, "yaw", "bFlipYaw", v))
binauraliser_setFlipPitch == IsBin /\ \E v \in FlagInputs : Ctl(setFlip(h, "pitch", "bFlipPitch", v))
binauraliser_setFlipRoll  == IsBin /\ \E v \in FlagInputs : Ctl(setFlip(h, "roll", "bFlipRoll", v))
binauraliser_setRPYflag ==
    IsBin /\ \E v \in FlagInputs : Ctl([h EXCEPT !.useRollPitchYawFlag = v])
binauraliser_setInterpMode ==
    IsBin /\ \E v \in {INTERP_TRI, INTERP_NEAREST} : Ctl([h EXCEPT !.interpMode = v])

Setter ==
    \/ ambi_bin_refreshSettings \/ ambi_bin_setUseDefaultHRIRsflag
    \/ ambi_bin_setSofaFilePath \/ ambi_bin_setInputOrderPreset
    \/ ambi_bin_setChOrder \/ ambi_bin_setNormType
    \/ ambi_bin_setDecEnableMaxrE \/ ambi_bin_setEnableEQ
    \/ ambi_bin_setYaw \/ ambi_bin_setPitch \/ ambi_bin_setRoll
    \/ ambi_bin_setFlipYaw \/ ambi_bin_setFlipPitch \/ ambi_bin_setFlipRoll
    \/ binauraliser_refreshSettings
    \/ binauraliser_setSourceAzi_deg \/ binauraliser_setSourceElev_deg
    \/ binauraliser_setNumSources \/ binauraliser_setUseDefaultHRIRsflag
    \/ binauraliser_setSofaFilePath \/ binauraliser_setInputConfigPreset
    \/ binauraliser_setEnableRotation
    \/ binauraliser_setYaw \/ binauraliser_setPitch \/ binauraliser_setRoll
    \/ binauraliser_setFlipYaw \/ binauraliser_setFlipPitch \/ binauraliser_setFlipRoll
    \/ binauraliser_setRPYflag \/ binauraliser_setInterpMode

(* ---------------------------- audio thread ----------------------------- *)
NoCall == [op |-> "none", nInputs |-> 0, nOutputs |-> 0, nSamples |-> 0, isPlaying |-> 0,
           inVal |-> 0, order |-> 0, nSH |-> 0, norm |-> 0, nSources |-> 0,
           enableRotation |-> 0]

NoHist == [entryTFT |-> 0, entryCodec |-> 0, rebTFT |-> 0, rebCodec |-> 0,
           setDuring |-> FALSE, gateTFT |-> -1, gateCodec |-> -1, ran |-> FALSE]

\* what the caller's output buffers hold before the call writes them
Stale == ONE \div 2
StaleOut(nOutputs) == [ch \in 0 .. (nOutputs - 1) |-> [s \in Samples |-> Stale]]
ZeroOut(nOutputs)  == [ch \in 0 .. (nOutputs - 1) |-> [s \in Samples |-> 0]]

\* the drain: a requested flag is taken to in-progress, the rebuild runs, the
\* flag is cleared
\* faulty variant: a requested flag is never taken up by the drain
DrainTakenNever(v) == v = IN_PROGRESS
DrainTaken(v) == v = REQUESTED
DrainBegin(hh, f) == [hh EXCEPT ![f] = IN_PROGRESS]
\* faulty variant: the flag is left in-progress after the rebuild
DrainEndKeeps(hh, f) == hh
DrainEnd(hh, f) == [hh EXCEPT ![f] = CLEAN]

RebuildTFT(hh) == IF IsAmbi THEN ambi_bin_initTFT(hh) ELSE binauraliser_initTFT(hh)
RebuildCodec(hh) == IF IsAmbi THEN ambi_bin_initCodec(hh)
                    ELSE binauraliser_initHRTFsAndGainTables(hh)

\* the call drains the codec/HRTF flag too (binauraliser_process does so only
\* in the __APPLE__ build)
DrainsCodec(c) == ~(IsBin /\ c.op = "process" /\ ~apple)

\* where a call continues when its drain is over
AfterDrain(c) == CASE c.op = "process" -> "gate1"
                   [] c.op = "init" -> "init_end"
                   [] OTHER -> "ret"
\* faulty variant: the drain stops after the filterbank
AfterTFTSkipsCodec(c) == AfterDrain(c)

AfterTFT(c) == IF DrainsCodec(c) THEN "codec_test" ELSE AfterDrain(c)

Enter(c, nextpc) ==
    /\ call' = c
    /\ pc' = nextpc
    /\ hist' = [NoHist EXCEPT !.entryTFT = h.reInitTFT, !.entryCodec = h[CodecFlag]]

\* ambi_bin_init, binauraliser_init
CallInit ==
    /\ pc = "created"
    /\ Enter([NoCall EXCEPT !.op = "init"], IF IsAmbi THEN "ret" ELSE "tft_test")
    /\ h' = IF IsAmbi THEN ambi_bin_init(h) ELSE h
    /\ UNCHANGED <<eng, apple, outputs, nBlocks, nSets>>

\* binauraliser_init after its binauraliser_checkReInit (line 158)
InitEnd ==
    /\ pc = "init_end"
    /\ h' = [h EXCEPT !.recalc_M_rotFLAG = 1]
    /\ pc' = "ret"
    /\ UNCHANGED <<eng, apple, call, outputs, hist, nBlocks, nSets>>

\* <<nInputs, nOutputs>> of the calls the host makes: fewer and more channels
\* than the engine is configured for
CallShapes == {<<1, 1>>, <<MAX_NUM_SH_SIGNALS + 1, NUM_EARS + 1>>}

\* entry of ambi_bin_process / binauraliser_process
CallProcess ==
    /\ pc = "idle"
    /\ nBlocks < MaxBlocks
    /\ \E sh \in CallShapes,
          nSmp \in {FRAME_SIZE, FRAME_SIZE + 1}, play \in {0, 1} :
          /\ Enter([NoCall EXCEPT !.op = "process", !.nInputs = sh[1], !.nOutputs = sh[2],
                                  !.nSamples = nSmp, !.isPlaying = play, !.inVal = ONE],
                   "tft_test")
          /\ outputs' = StaleOut(sh[2])
    /\ nBlocks' = nBlocks + 1
    /\ UNCHANGED <<eng, apple, h, nSets>>

\* entry of binauraliser_checkReInit
CallCheckReInit ==
    /\ IsBin
    /\ pc = "idle"
    /\ nBlocks < MaxBlocks
    /\ Enter([NoCall EXCEPT !.op = "checkReInit"], "tft_test")
    /\ nBlocks' = nBlocks + 1
    /\ UNCHANGED <<eng, apple, h, outputs, nSets>>

\* faulty variant: the drain goes on to the codec without the filterbank
TftTestSkipped ==
    /\ pc = "tft_test"
    /\ h' = h /\ pc' = AfterTFT(call)
    /\ UNCHANGED <<eng, apple, call, outputs, hist, nBlocks, nSets>>

\* if(reInitTFT==1){ reInitTFT = 2;
TftTest ==
    /\ pc = "tft_test"
    /\ IF DrainTaken(h.reInitTFT)
       THEN h' = DrainBegin(h, "reInitTFT") /\ pc' = "tft_init"
       ELSE h' = h /\ pc' = AfterTFT(call)
    /\ UNCHANGED <<eng, apple, call, outputs, hist, nBlocks, nSets>>

\* ambi_bin_initTFT / binauraliser_initTFT
TftInit ==
    /\ pc = "tft_init"
    /\ h' = RebuildTFT(h)
    /\ hist' = [hist EXCEPT !.rebTFT = @ + 1]
    /\ pc' = "tft_done"
    /\ UNCHANGED <<eng, apple, call, outputs, nBlocks, nSets>>

\* reInitTFT = 0; }
TftDone ==
    /\ pc = "tft_done"
    /\ h' = DrainEnd(h, "reInitTFT")
    /\ pc' = AfterTFT(call)
    /\ UNCHANGED <<eng, apple, call, outputs, hist, nBlocks, nSets>>

\* if(reInitCodec==1){ reInitCodec = 2;
CodecTest ==
    /\ pc = "codec_test"
    /\ IF DrainTaken(h[CodecFlag])
       THEN h' = DrainBegin(h, CodecFlag) /\ pc' = "codec_init"
       ELSE h' = h /\ pc' = AfterDrain(call)
    /\ UNCHANGED <<eng, apple, call, outputs, hist, nBlocks, nSets>>

\* ambi_bin_initCodec / binauraliser_initHRTFsAndGainTables
CodecInit ==
    /\ pc = "codec_init"
    /\ h' = RebuildCodec(h)
    /\ hist' = [hist EXCEPT !.rebCodec = @ + 1]
    /\ pc' = "codec_done"
    /\ UNCHANGED <<eng, apple, call, outputs, nBlocks, nSets>>

\* reInitCodec = 0; }
CodecDone ==
    /\ pc = "codec_done"
    /\ h' = DrainEnd(h, CodecFlag)
    /\ pc' = AfterDrain(call)
    /\ UNCHANGED <<eng, apple, call, outputs, hist, nBlocks, nSets>>

\* faulty variant: the gating check does not look at the block size
GateLocalAnySize(hh, c) == IF IsAmbi THEN c.isPlaying # 0 ELSE hh.hrtf_fb # "none"

\* the conditions of the gating check that do not read a reinit flag
GateLocal(hh, c) ==
    /\ c.nSamples = FRAME_SIZE
    /\ IF IsAmbi THEN c.isPlaying # 0 ELSE hh.hrtf_fb # "none"

\* faulty variant: a requested flag lets the block through
GateOpenRequested(v) == v # IN_PROGRESS

\* a reinit flag lets the block through
GateOpen(v) == v = CLEAN

\* the flags in the order the gating check reads them
GateFirst  == IF IsAmbi THEN "reInitCodec" ELSE "reInitTFT"
GateSecond == IF IsAmbi THEN "reInitTFT" ELSE "reInitHRTFsAndGainTables"
GateRead(hs, f, v) == IF f = "reInitTFT" THEN [hs EXCEPT !.gateTFT = v]
                      ELSE [hs EXCEPT !.gateCodec = v]

\* the else branch: memset of every output channel
Silence ==
    /\ outputs' = ZeroOut(call.nOutputs)
    /\ pc' = "ret"

\* the gating check up to its first flag
Gate1 ==
    /\ pc = "gate1"
    /\ IF GateLocal(h, call)
       THEN /\ hist' = GateRead(hist, GateFirst, h[GateFirst])
            /\ IF GateOpen(h[GateFirst]) THEN pc' = "gate2" /\ outputs' = outputs
               ELSE Silence
       ELSE hist' = hist /\ Silence
    /\ UNCHANGED <<eng, apple, h, call, nBlocks, nSets>>

\* the second flag of the gating check
Gate2 ==
    /\ pc = "gate2"
    /\ hist' = GateRead(hist, GateSecond, h[GateSecond])
    /\ IF GateOpen(h[GateSecond]) THEN pc' = "load" /\ outputs' = outputs
       ELSE Silence
    /\ UNCHANGED <<eng, apple, h, call, nBlocks, nSets>>

\* the channel count the processing branch works with
LocalChannels(hh) == IF IsAmbi THEN (hh.order + 1) * (hh.order + 1) ELSE hh.nSources

\* "copy user parameters to local variables"
Load ==
    /\ pc = "load"
    /\ call' = IF IsAmbi
               THEN [call EXCEPT !.norm = h.norm, !.order = h.order,
                                 !.nSH = LocalChannels(h)]
               ELSE [call EXCEPT !.nSources = LocalChannels(h),
                                 !.enableRotation = h.enableRotation]
    /\ pc' = "run"
    /\ UNCHANGED <<eng, apple, h, outputs, hist, nBlocks, nSets>>

\* channels the loops of the running block range over
CallChannels(c) == IF IsAmbi THEN c.nSH ELSE c.nSources

\* transform, matrix, mix, inverse transform, output
Run ==
    /\ pc = "run"
    /\ InBounds(h, CallChannels(call))
    /\ h' = IF IsAmbi THEN ambi_bin_pipeline(h, call) ELSE binauraliser_pipeline(h, call)
    /\ outputs' = IF IsAmbi THEN ambi_bin_pipelineOut(h, call)
                  ELSE binauraliser_pipelineOut(h, call)
    /\ hist' = [hist EXCEPT !.ran = TRUE]
    /\ pc' = "ret"
    /\ UNCHANGED <<eng, apple, call, nBlocks, nSets>>

\* the loops run past the hop buffer or the filterbank's channels: the
\* behaviour of the call is undefined from here on
Fault ==
    /\ pc = "run"
    /\ ~InBounds(h, CallChannels(call))
    /\ hist' = [hist EXCEPT !.ran = TRUE]
    /\ pc' = "fault"
    /\ UNCHANGED <<eng, apple, h, call, outputs, nBlocks, nSets>>

\* the call returns
Return ==
    /\ pc = "ret"
    /\ pc' = "idle"
    /\ call' = NoCall
    /\ hist' = NoHist
    /\ outputs' = <<>>
    /\ UNCHANGED <<eng, apple, h, nBlocks, nSets>>

Init ==
    /\ eng \in {"ambi_bin", "binauraliser"}
    /\ apple \in BOOLEAN
    /\ (eng = "ambi_bin") => (apple = FALSE)
    /\ h \in IF eng = "ambi_bin" THEN {ambi_bin_create(g) : g \in Garbage}
             ELSE {binauraliser_create}
    /\ pc = "created"
    /\ call = NoCall
    /\ outputs = <<>>
    /\ hist = NoHist
    /\ nBlocks = 0
    /\ nSets = 0

Next ==
    \/ CallInit \/ InitEnd \/ CallProcess \/ CallCheckReInit
    \/ TftTest \/ TftInit \/ TftDone
    \/ CodecTest \/ CodecInit \/ CodecDone
    \/ Gate1 \/ Gate2 \/ Load \/ Run \/ Fault \/ Return
    \/ Setter

Spec == Init /\ [][Next]_vars

(* ======================== properties of the code ======================== *)
InProcessCall == call.op = "process"
AudioStep  == pc' # pc
SetterStep == nSets' # nSets
DrainPcs   == {"tft_test", "tft_init", "tft_done", "codec_test", "codec_init", "codec_done"}

\* every sample of every output channel of the call is zero
OutputsZero == \A ch \in DOMAIN outputs : \A s \in Samples : outputs[ch][s] = 0

\* a flag value the gating check read and found not clean
ReadDirty(v) == v # -1 /\ v # CLEAN

\* C1: a block runs the analysis/mix/synthesis pipeline only if both reinit flags
\* were read clean at the gating check (and, for the binauraliser, the HRTF
\* filterbank data is loaded); a call whose gating check read a requested or
\* in-progress flag returns with every sample of its nOutputs channels zero
\* and without having run the pipeline.
C1_GatedPipeline ==
    /\ (pc \in {"load", "run", "fault"} \/ hist.ran) =>
          /\ hist.gateTFT = CLEAN /\ hist.gateCodec = CLEAN
          /\ IsBin => h.hrtf_fb # "none"
    /\ (pc = "ret" /\ InProcessCall
          /\ (ReadDirty(hist.gateTFT) \/ ReadDirty(hist.gateCodec)
                \/ (IsBin /\ h.hrtf_fb = "none"))) =>
          /\ OutputsZero
          /\ DOMAIN outputs = 0 .. (call.nOutputs - 1)
          /\ ~hist.ran

C1_Witness ==
    /\ pc = "ret" /\ InProcessCall
    /\ call.nSamples = FRAME_SIZE /\ call.isPlaying = 1
    /\ (hist.gateTFT = REQUESTED \/ hist.gateCodec = REQUESTED)
    /\ OutputsZero /\ ~hist.ran

\* the build of the running call drains the codec/HRTF flag inside process
DrainsBoth == IsAmbi \/ apple

LegalChange(v, w) ==
    \/ w = v
    \/ v = CLEAN /\ w = REQUESTED /\ SetterStep
    \/ v = REQUESTED /\ w = IN_PROGRESS /\ AudioStep
    \/ v = IN_PROGRESS /\ w = CLEAN /\ AudioStep

\* C3: in every execution, interleavings of setters with the audio thread
\* included, a reinit flag only goes clean -> requested (by a setter),
\* requested -> in-progress and in-progress -> clean (by the audio thread).
C3_LegalTransitions ==
    [][LegalChange(h.reInitTFT, h'.reInitTFT)
         /\ LegalChange(h[CodecFlag], h'[CodecFlag])]_vars

C5_CompleteAtReturn ==
    (pc \in {"created", "idle", "ret"}) =>
        /\ h.reInitTFT \in {CLEAN, REQUESTED}
        /\ h[CodecFlag] \in {CLEAN, REQUESTED}

C5_Witness ==
    /\ pc = "ret" /\ InProcessCall
    /\ hist.rebTFT = 1 /\ hist.rebCodec = 1
    /\ h.reInitTFT = CLEAN /\ h[CodecFlag] = CLEAN

\* C6: whenever a block is processed, the channel count its loops use is the
\* channel count the filterbank was last rebuilt for.
C6_ChannelsMatch ==
    (pc = "run") => (h.hSTFT.alloc /\ CallChannels(call) = h.hSTFT.nCHin)

\* the mixing matrices, subband tensors and filterbank handle of the engine
Tensors(hh) ==
    IF IsAmbi
    THEN <<hh.current_M, hh.prev_M, hh.SHframeTF, hh.prev_SHframeTF, hh.binframeTF, hh.hSTFT>>
    ELSE <<hh.hrtf_interp, hh.inputframeTF, hh.outputframeTF, hh.hSTFT>>

\* C7: a configuration setter writes no mixing matrix, subband tensor or
\* filterbank handle, and changes no value the processing path sizes its
\* arrays by (those change inside the drain only).
C7_SettersOnlyRequest ==
    [][SetterStep => (Tensors(h') = Tensors(h) /\ LocalChannels(h') = LocalChannels(h))]_vars

\* C8: a process call with isPlaying = false returns with every sample of every
\* output channel zero.
C8_NotPlayingSilent ==
    (pc = "ret" /\ InProcessCall /\ call.isPlaying = 0) => OutputsZero

\* what a call that is not playing has to leave alone
PlayState(hh) ==
    IF IsAmbi
    THEN <<hh.current_M, hh.prev_M, hh.prev_SHframeTF>>
    ELSE <<hh.hrtf_interp, hh.inputframeTF, hh.recalc_hrtf_interpFLAG,
           hh.recalc_M_rotFLAG, hh.hSTFT>>

\* C9: a process call with isPlaying = false leaves the matrices, the subband
\* history, the recalc flags and the filterbank's internal state as they were
\* (the steps of the drain, which may rebuild the filterbank, are left out).
C9_NotPlayingKeepsState ==
    [][(AudioStep /\ InProcessCall /\ call.isPlaying = 0 /\ pc \notin DrainPcs)
          => PlayState(h') = PlayState(h)]_vars

\* what a call with a malformed block size has to leave alone
MixState(hh) ==
    IF IsAmbi
    THEN <<hh.current_M, hh.prev_M, hh.SHframeTF, hh.prev_SHframeTF, hh.binframeTF>>
    ELSE <<hh.hrtf_interp, hh.inputframeTF, hh.outputframeTF,
           hh.recalc_hrtf_interpFLAG, hh.recalc_M_rotFLAG, hh.src_dirs_rot_deg>>

\* C10: a process call with nSamples # FRAME_SIZE never enters the processing
\* branch, changes no mixing matrix, subband history or recalc flag outside the
\* rebuilds of its drain, and returns with every sample of every output
\* channel zero.
C10_BadBlockSilent ==
    [][(AudioStep /\ InProcessCall /\ call.nSamples # FRAME_SIZE) =>
          /\ pc \notin {"tft_init", "codec_init"} => MixState(h') = MixState(h)
          /\ pc' # "run"
          /\ (pc' = "ret" => \A ch \in 0 .. (call.nOutputs - 1) :
                                \A s \in Samples : outputs'[ch][s] = 0)]_vars

C10_Witness ==
    /\ pc = "ret" /\ InProcessCall /\ call.nSamples # FRAME_SIZE
    /\ OutputsZero /\ DOMAIN outputs = 0 .. (call.nOutputs - 1)
    /\ hist.rebTFT = 0 /\ hist.rebCodec = 0
    /\ IF IsAmbi THEN h.prev_M # ZeroM ELSE h.hrtf_interp # ZeroHrtf

(* ------------------------ the crossfade mixer --------------------------- *)
\* the step in which ambi_bin_process runs its processing branch
ProcessedAmbi == IsAmbi /\ pc = "run" /\ pc' = "ret"

\* ramp[t] * (curM x S)[ear][t] + (1 - ramp[t]) * (prevM x S)[ear][t]
Crossfade(curM, prevM, S, ramp, nSH) ==
    [b \in Bands |-> [e \in Ears |-> [t \in Slots |->
        FAdd(FMul(MatTF(curM[b], S[b], nSH, e, t), ramp[t]),
             FMul(MatTF(prevM[b], S[b], nSH, e, t), ONE - ramp[t]))]]]

\* two matrices agree on their first nSH columns
SameColumns(M, N, nSH) ==
    \A b \in Bands : \A e \in Ears : \A ch \in ShChs : ch < nSH => M[b][e][ch] = N[b][e][ch]

\* two subband tensors agree on their first nSH channels
SameChannels(S, T, nSH) ==
    \A b \in Bands : \A ch \in ShChs : ch < nSH => S[b][ch] = T[b][ch]

\* C11: in every processed ambi_bin block the mixed subbands are the crossfade
\* of the previous and the current matrix applied to the tensor analysed from
\* the input frame of that same block.
C11_SameBlockTensor ==
    [][ProcessedAmbi =>
          h'.binframeTF = Crossfade(h'.current_M, h.prev_M, h'.SHframeTF,
                                    h.interpolator, call.nSH)]_vars

\* C12: in every processed ambi_bin block, for every band, ear and time slot,
\* the mixed output is interpolator[t] * (current_M x S) + (1 - interpolator[t])
\* * (prev_M x S) with one tensor S in both products: the tensor stored as
\* previous when the block began.
C12_MixFormula ==
    [][ProcessedAmbi =>
          h'.binframeTF = Crossfade(h'.current_M, h.prev_M, h.prev_SHframeTF,
                                    h.interpolator, call.nSH)]_vars

C12_Witness ==
    /\ IsAmbi /\ pc = "ret" /\ InProcessCall /\ hist.ran
    /\ h.binframeTF # ZeroBin
    /\ \E b \in Bands : \E e \in Ears : \E t \in Slots :
          h.binframeTF[b][e][t] # 0 /\ h.interpolator[t] # ONE

\* C13: a processed ambi_bin block copies current to previous, matrix and
\* tensor, on the nSH channels of the block, after the mixer has read the
\* previous matrix and tensor (the mix is formed with the values of before the
\* copy); every other step of a process call, the rebuilds of the drain left
\* out, leaves the previous matrix and the previous tensor as they were.
C13_PrevCopy ==
    [][(IsAmbi /\ InProcessCall /\ AudioStep) =>
          IF pc = "run" /\ pc' = "ret"
          THEN /\ SameColumns(h'.prev_M, h'.current_M, call.nSH)
               /\ SameChannels(h'.prev_SHframeTF, h'.SHframeTF, call.nSH)
               /\ h'.binframeTF = Crossfade(h'.current_M, h.prev_M, h.prev_SHframeTF,
                                            h.interpolator, call.nSH)
          ELSE (pc \notin {"tft_init", "codec_init"}) =>
                  (h'.prev_M = h.prev_M /\ h'.prev_SHframeTF = h.prev_SHframeTF)]_vars

C13_Witness ==
    /\ IsAmbi /\ pc = "ret" /\ InProcessCall /\ hist.ran
    /\ h.prev_M # ZeroM /\ h.prev_SHframeTF # ZeroTF
    /\ SameColumns(h.prev_M, h.current_M, call.nSH)
    /\ SameChannels(h.prev_SHframeTF, h.SHframeTF, call.nSH)

\* equal up to one unit of the last place (the rounding of two products)
Near(x, y) == IF IsNum(x) /\ IsNum(y) THEN (x - y) \in -1 .. 1 ELSE x = y

Ramp == [t \in Slots |-> ((t + 1) * ONE) \div TIME_SLOTS]

\* C15: once ambi_bin_init has run, interpolator[i] = (i+1)/TIME_SLOTS for every
\* time slot: strictly increasing, every value in (0,1], the last exactly 1;
\* no process call and no setter changes it.
C15_Ramp ==
    (IsAmbi /\ pc # "created") =>
        /\ h.interpolator = Ramp
        /\ \A t \in Slots : h.interpolator[t] > 0 /\ h.interpolator[t] <= ONE
        /\ \A t, u \in Slots : t < u => h.interpolator[t] < h.interpolator[u]
        /\ h.interpolator[0] = ONE \div TIME_SLOTS
        /\ h.interpolator[TIME_SLOTS - 1] = ONE

C15_Witness ==
    /\ IsAmbi /\ pc = "ret" /\ InProcessCall /\ hist.ran /\ nSets > 0
    /\ h.interpolator = Ramp /\ h.binframeTF # ZeroBin

\* the SH rotation matrix of the stored yaw, pitch and roll
RotOf(hh, nSH) == getSHrotMtxReal(yawPitchRoll2Rzyx(hh.yaw, hh.pitch, hh.roll), nSH)

\* C16: in every processed ambi_bin block and every band the current matrix is,
\* on its NUM_EARS x nSH part, the product M_dec[band] x R(yaw,pitch,roll) when
\* order > 0 and M_dec[band] itself when order = 0; with order 0 it is the
\* matrix the block would have with yaw = pitch = roll = 0.
C16_CurrentMatrix ==
    [][ProcessedAmbi =>
          /\ \A b \in Bands : \A e \in Ears : \A j \in ShChs : j < call.nSH =>
                h'.current_M[b][e][j] =
                   IF call.order > 0
                   THEN FSum([k \in 0 .. (call.nSH - 1) |->
                                 h.pars.M_dec[b][e][k] * RotOf(h, call.nSH)[k][j]], call.nSH)
                   ELSE h.pars.M_dec[b][e][j]
          /\ call.order = 0 =>
                SameColumns(h'.current_M,
                            ambi_currentM([h EXCEPT !.yaw = 0, !.pitch = 0, !.roll = 0], call),
                            call.nSH)]_vars

C16_Witness ==
    /\ IsAmbi /\ pc = "ret" /\ InProcessCall /\ hist.ran
    /\ call.order > 0 /\ h.yaw # 0
    /\ ~SameColumns(h.current_M, h.pars.M_dec, call.nSH)

\* a processed block of order 0 under a non-zero yaw
C16_OmniRotated ==
    /\ IsAmbi /\ pc = "ret" /\ InProcessCall /\ hist.ran
    /\ call.order = 0 /\ h.yaw # 0
    /\ h.pars.M_dec # ZeroM /\ SameColumns(h.current_M, h.pars.M_dec, call.nSH)

(* ---------------- the binauraliser's interpolated HRTFs ---------------- *)
\* an engine that the host configured between create and init: the
\* binauraliser with rotation enabled and a yaw chosen
InitConfigured ==
    /\ eng \in {"ambi_bin", "binauraliser"}
    /\ apple \in BOOLEAN
    /\ (eng = "ambi_bin") => (apple = FALSE)
    /\ h \in IF eng = "ambi_bin" THEN {ambi_bin_create(g) : g \in Garbage}
             ELSE {setAngle(binauraliser_setEnableRotationOn(binauraliser_create, 1),
                            "yaw", "bFlipYaw", a) : a \in AngleInputs}
    /\ pc = "created"
    /\ call = NoCall
    /\ outputs = <<>>
    /\ hist = NoHist
    /\ nBlocks = 0
    /\ nSets = 0

SpecConfigured == InitConfigured /\ [][Next]_vars

ProcessedBin == IsBin /\ pc = "run" /\ pc' = "ret" /\ call.isPlaying # 0

\* the direction source ch is rendered from: the stored one, rotated by the
\* stored yaw, pitch and roll when the block rotates
BinDirection(hh, c, ch) ==
    IF c.enableRotation # 0 THEN bin_RotDir(hh, ch) ELSE hh.src_dirs_deg[ch]

\* an HRTF interpolated at direction d, whatever the mode and the data set
InterpolatedAt(hh, d) ==
    {binauraliser_interpHRTFs([hh EXCEPT !.interpMode = m, !.hrtf_fb = s], d[1], d[2]) :
        m \in {INTERP_TRI, INTERP_NEAREST}, s \in {hh.hrtf_fb, "sofa", "default"}}

\* C17: after any setter calls, a playing block of the binauraliser leaves,
\* for every active source, an interpolated HRTF computed from the direction
\* stored for that source (rotated exactly when rotation is enabled)
C17_FreshHRTF ==
    [][ProcessedBin =>
         \A ch \in 0 .. (call.nSources - 1) :
            h'.hrtf_interp[ch] \in InterpolatedAt(h, BinDirection(h, call, ch))]_vars

(* ------------------------- setters and getters ------------------------- *)
\* structure a with the reinit and recalc flags of structure b
WithFlagsOf(a, b) ==
    IF IsAmbi THEN [a EXCEPT !.reInitCodec = b.reInitCodec, !.reInitTFT = b.reInitTFT]
    ELSE [a EXCEPT !.reInitHRTFsAndGainTables = b.reInitHRTFsAndGainTables,
                   !.reInitTFT = b.reInitTFT,
                   !.recalc_hrtf_interpFLAG = b.recalc_hrtf_interpFLAG,
                   !.recalc_M_rotFLAG = b.recalc_M_rotFLAG]

\* a setter call, other than refreshSettings, that stores what was stored
SameValueCall ==
    SetterStep /\ h' # refreshSettings(h) /\ WithFlagsOf(h', h) = h

\* C18: a setter called with the value already stored leaves every reinit
\* flag and every recalc flag as it was
C18_SameValueKeepsFlags == [][SameValueCall => h' = h]_vars

\* some reinit flag of structure hh is requested, or some recalc flag is set
AnyFlagRaised(hh) ==
    IF IsAmbi THEN hh.reInitCodec = REQUESTED \/ hh.reInitTFT = REQUESTED
    ELSE \/ hh.reInitHRTFsAndGainTables = REQUESTED \/ hh.reInitTFT = REQUESTED
         \/ hh.recalc_M_rotFLAG = 1
         \/ \E ch \in SrcChs : hh.recalc_hrtf_interpFLAG[ch] = 1

\* a setter call that stores a value different from the stored one
NewValueCall == SetterStep /\ WithFlagsOf(h', h) # h

\* C19: a configuration setter called with a value different from the stored
\* one leaves a reinit flag requested, so that the next drain rebuilds
C19_NewValueRequests == [][NewValueCall => AnyFlagRaised(h')]_vars

\* the setter/getter pairs of the engine in use and the values tried on them
Pairs ==
    IF IsAmbi
    THEN {"UseDefaultHRIRsflag", "SofaFilePath", "InputOrderPreset", "ChOrder", "NormType",
          "DecEnableMaxrE", "EnableEQ", "Yaw", "Pitch", "Roll",
          "FlipYaw", "FlipPitch", "FlipRoll"}
    ELSE {"SourceAzi_deg", "SourceElev_deg", "NumSources", "UseDefaultHRIRsflag",
          "SofaFilePath", "EnableRotation", "Yaw", "Pitch", "Roll",
          "FlipYaw", "FlipPitch", "FlipRoll", "RPYflag", "InterpMode"}

PairInputs(what) ==
    CASE what = "SofaFilePath"     -> SofaPaths
      [] what = "InputOrderPreset" -> PresetInputs \ {0}
      [] what = "ChOrder"          -> {CH_ACN, CH_FUMA}
      [] what = "NormType"         -> {NORM_N3D, NORM_SN3D}
      [] what \in {"Yaw", "Pitch", "Roll"} -> AngleInputs \cup {-90, 180}
      [] what = "SourceAzi_deg"    -> AziInputs \cup {-180, -90, 0, 90, 180, 270}
      [] what = "SourceElev_deg"   -> ElevInputs \cup {-100, -90, 0, 90}
      [] what = "NumSources"       -> CountInputs
      [] what = "InterpMode"       -> {INTERP_TRI, INTERP_NEAREST}
      [] OTHER                     -> FlagInputs

\* the value a setter is documented to store: azimuth wrapped, elevation and
\* source count clamped, anything else as given
Documented(what, v) ==
    CASE what = "SourceAzi_deg"  -> IF v > 180 THEN v - 360 ELSE v
      [] what = "SourceElev_deg" -> MIN(MAX(v, -90), 90)
      [] what = "NumSources"     -> MIN(v, MAX_NUM_INPUTS)
      [] OTHER                   -> v

\* what the getter answers directly after the setter stored v
GetAfterSet(what, index, v) ==
    IF IsAmbi THEN ambi_bin_get(ambi_bin_set(h, what, v), what)
    ELSE binauraliser_get(binauraliser_set(h, what, index, v), what, index)

\* C20: for every setter/getter pair the getter called directly after the
\* setter returns the value that was set (azimuth wrapped, elevation and
\* source count clamped)
C20_GetAfterSet ==
    \A what \in Pairs : \A v \in PairInputs(what) : \A index \in SrcChs :
        GetAfterSet(what, index, v) = Documented(what, v)

\* what the code does keep: every pair but the default-dataset flag answers
\* with the value set; that flag is stored only when it turns a cleared flag on
GetAfterSetButDefault ==
    \A what \in Pairs \ {"UseDefaultHRIRsflag"} :
        \A v \in PairInputs(what) : \A index \in SrcChs :
            GetAfterSet(what, index, v) = Documented(what, v)

(* ------------------------ source directions ------------------------ *)
\* azimuths and elevations tried on the direction setters
WrapAzimuths  == {181, 190, 270, 360, 450, 540}
AllAzimuths   == WrapAzimuths \cup {-720, -190, -181, -180, -179, -90, 0, 90, 179, 180, 541, 720}
AllElevations == {-200, -100, -91, -90, -89, 0, 45, 89, 90, 91, 100, 200}

\* the engine between two calls of the audio thread, no block processed yet:
\* the control thread's calls are tried on the structure of these states
\* (processing writes none of the fields the direction and orientation
\* setters read)
BeforeBlocks == pc = "idle" /\ nBlocks = 0

\* src_dirs_deg of hh with coordinate k of source index replaced by v
DirsWith(hh, index, k, v) == [hh.src_dirs_deg EXCEPT ![index][k] = v]

\* C21: setSourceAzi_deg stores a - 360 for 180 < a <= 540 and
\* setSourceElev_deg stores the elevation clamped to [-90, 90]; each changes
\* only its own coordinate of the addressed source
C21_WrapAndClamp ==
    (IsBin /\ BeforeBlocks) =>
      \A index \in SrcChs :
        /\ \A a \in WrapAzimuths :
              binauraliser_setSourceAzi_degOn(h, index, a).src_dirs_deg
                  = DirsWith(h, index, 1, a - 360)
        /\ \A e \in AllElevations :
              binauraliser_setSourceElev_degOn(h, index, e).src_dirs_deg
                  = DirsWith(h, index, 2, IF e < -90 THEN -90 ELSE IF e > 90 THEN 90 ELSE e)

\* the control thread has set an azimuth of 190 and an elevation is stored
\* next to it untouched
C21_Witness ==
    /\ IsBin /\ BeforeBlocks /\ nSets = 1
    /\ \E index \in SrcChs : h.src_dirs_deg[index] = <<-170, 0>>

\* C22: after setSourceAzi_deg for any input the stored azimuth lies in the
\* half-open range (-180, 180], and after setSourceElev_deg the stored
\* elevation lies in [-90, 90]
C22_StoredInRange ==
    IsBin =>
      \A index \in SrcChs :
        /\ \A a \in AllAzimuths :
              LET azi == binauraliser_setSourceAzi_degOn(h, index, a).src_dirs_deg[index][1]
              IN  -180 < azi /\ azi <= 180
        /\ \A e \in AllElevations :
              LET elev == binauraliser_setSourceElev_degOn(h, index, e).src_dirs_deg[index][2]
              IN  -90 <= elev /\ elev <= 90

(* --------------------------- channel counts --------------------------- *)
\* a block of either engine runs its processing branch
Processed == pc = "run" /\ pc' = "ret"

\* the analysed channels of the engine after the block
AnalysedTF(hh) == IF IsAmbi THEN hh.SHframeTF ELSE hh.inputframeTF

\* the analysed channels the block would leave for nInputs = n (the load
\* and the forward transform are the only readers of the inputs)
AnalysedFor(n) ==
    LET c == [call EXCEPT !.nInputs = n]
    IN  IF IsAmbi THEN ambi_SHframeTF(h, c, ambi_SHFrameTD(c))
        ELSE bin_inputframeTF(h, c)

\* C23: in a processed block input channels missing below the configured
\* count are analysed as all-zero, input channels beyond the configured count
\* change nothing, the first min(2, nOutputs) outputs carry the ear signals
\* and every output from index 2 on is all-zero
C23_ChannelCounts ==
    [][Processed =>
         LET n == CallChannels(call)
         IN  /\ \A ch \in 0 .. (n - 1) :
                   ch >= call.nInputs =>
                      /\ h'.hSTFT.ana[ch] = 0
                      /\ \A b \in Bands : \A t \in 1 .. (TIME_SLOTS - 1) :
                            AnalysedTF(h')[b][ch][t] = 0
             /\ call.nInputs > n => AnalysedTF(h') = AnalysedFor(n)
             /\ DOMAIN outputs' = 0 .. (call.nOutputs - 1)
             /\ \A ch \in 0 .. (call.nOutputs - 1) :
                   IF ch < MIN(NUM_EARS, call.nOutputs)
                   THEN outputs'[ch][FRAME_SIZE - 1] = h'.tempHopFrameTD[ch]
                   ELSE \A s \in Samples : outputs'[ch][s] = 0]_vars

\* a block with fewer inputs than configured channels was processed and the
\* one output it was given carries signal
C23_Witness ==
    /\ pc = "ret" /\ hist.ran /\ call.op = "process"
    /\ call.nInputs < CallChannels(call)
    /\ \E s \in Samples : outputs[0][s] # 0

\* a block with more inputs and outputs than configured was processed
C23_Wide ==
    /\ pc = "ret" /\ hist.ran /\ call.op = "process"
    /\ call.nInputs > CallChannels(call) /\ call.nOutputs > NUM_EARS
    /\ \E s \in Samples : outputs[1][s] # 0

(* ------------------------ the binaural panner ------------------------ *)
RECURSIVE SourceSum(_, _, _, _, _)
\* sum over the sources ch < n of input subband x interpolated HRTF
SourceSum(hh, b, e, t, n) ==
    IF n = 0 THEN 0
    ELSE FAdd(SourceSum(hh, b, e, t, n - 1),
              FMul(hh.inputframeTF[b][n - 1][t], hh.hrtf_interp[n - 1][b][e]))

\* C24: in a playing processed block of the binauraliser each output subband
\* entry is the sum over the active sources of input subband x interpolated
\* HRTF, scaled once by 1/sqrt(nSources), nSources being the active count
C24_PannerSum ==
    [][ProcessedBin =>
         \A b \in Bands : \A e \in Ears : \A t \in Slots :
            h'.outputframeTF[b][e][t] =
                FMul(SourceSum(h', b, e, t, h.nSources), RSqrt(h.nSources))]_vars

\* a playing block with two active sources and one input delivered has left
\* a non-zero output subband entry
C24_Witness ==
    /\ IsBin /\ pc = "ret" /\ hist.ran /\ call.isPlaying # 0
    /\ h.nSources = 2 /\ call.nInputs = 1
    /\ \E b \in Bands : \E e \in Ears : \E t \in Slots :
          h.outputframeTF[b][e][t] # 0 /\ IsNum(h.outputframeTF[b][e][t])

\* C25: with a source count of 0 a playing processed block leaves all-zero
\* output subbands and all-zero outputs: no non-finite value appears
C25_NoSourcesSilent ==
    [][(ProcessedBin /\ h.nSources = 0) =>
         /\ \A b \in Bands : \A e \in Ears : \A t \in Slots : h'.outputframeTF[b][e][t] = 0
         /\ \A ch \in DOMAIN outputs' : \A s \in Samples : IsNum(outputs'[ch][s])]_vars

(* -------------------- allocation failures in create -------------------- *)
\* ambi_bin_create / binauraliser_create step by step. h is the structure
\* being built: its table pointers and the vectors whose calloc returned
\* NULL; call holds the caller's handle, what it held before the call, and
\* whether an allocation of this call has failed.
NoStruct == [tables |-> <<>>, nullVectors |-> {}]

\* the vectors allocated by the loop that follows a table allocation
\* (ambi_bin.c:42-47, binauraliser.c:45-48 and 51-54)
VectorsOf(table) ==
    IF IsAmbi THEN {<<table, t, ch, part>> : t \in Slots, ch \in Ears, part \in {"re", "im"}}
    ELSE IF table = "STFTInputFrameTF"
         THEN {<<table, 0, ch, part>> : ch \in SrcChs, part \in {"re", "im"}}
         ELSE {<<table, 0, ch, part>> : ch \in Ears, part \in {"re", "im"}}

\* the statement that follows position p of create
CreateAfter(p) ==
    IF IsAmbi
    THEN CASE p = "c_entry"     -> "c_out_table"
           [] p = "c_out_table" -> "c_out_vec"
           [] p = "c_out_vec"   -> "c_pars"
           [] p = "c_pars"      -> "c_rest"
           [] OTHER             -> "c_done"
    ELSE CASE p = "c_entry"     -> "c_in_table"
           [] p = "c_in_table"  -> "c_in_vec"
           [] p = "c_in_vec"    -> "c_hop"
           [] p = "c_hop"       -> "c_out_table"
           [] p = "c_out_table" -> "c_out_vec"
           [] p = "c_out_vec"   -> "c_rest"
           [] OTHER             -> "c_done"

TableAt(p) == CASE p \in {"c_in_table", "c_in_vec"} -> "STFTInputFrameTF"
                [] p = "c_hop" -> "tempHopFrameTD"
                [] OTHER -> "STFTOutputFrameTF"

CreateKeeps == UNCHANGED <<eng, apple, outputs, hist, nBlocks, nSets>>

\* malloc of the engine structure, its NULL test and the store to the handle
CreateMalloc ==
    /\ pc = "c_entry"
    /\ \/ /\ pc' = "c_ret"
          /\ call' = [call EXCEPT !.failed = TRUE]
          /\ h' = h
       \/ /\ pc' = CreateAfter(pc)
          /\ call' = [call EXCEPT !.handle = "pData"]
          /\ h' = h
    /\ CreateKeeps

\* malloc / malloc2d of a table of vectors or of the hop buffer: the result
\* is stored untested
CreateTable ==
    /\ pc \in {"c_in_table", "c_hop", "c_out_table"}
    /\ \E res \in {"ok", "null"} :
          /\ h' = [h EXCEPT !.tables = [n \in DOMAIN h.tables \cup {TableAt(pc)} |->
                                           IF n = TableAt(pc) THEN res ELSE h.tables[n]]]
          /\ call' = [call EXCEPT !.failed = call.failed \/ res = "null"]
    /\ pc' = CreateAfter(pc)
    /\ CreateKeeps

\* the calloc loop over the table: a NULL table is dereferenced; a vector
\* whose calloc fails is stored as NULL
CreateVectors ==
    /\ pc \in {"c_in_vec", "c_out_vec"}
    /\ IF h.tables[TableAt(pc)] = "null"
       THEN pc' = "c_fault" /\ UNCHANGED <<h, call>>
       ELSE /\ \E bad \in SUBSET VectorsOf(TableAt(pc)) :
                  /\ h' = [h EXCEPT !.nullVectors = h.nullVectors \cup bad]
                  /\ call' = [call EXCEPT !.failed = call.failed \/ bad # {}]
            /\ pc' = CreateAfter(pc)
    /\ CreateKeeps

\* ambi_bin: malloc of the codec parameters, written through at once
CreatePars ==
    /\ pc = "c_pars"
    /\ \/ /\ pc' = "c_fault"
          /\ call' = [call EXCEPT !.failed = TRUE]
          /\ h' = [h EXCEPT !.tables = [n \in DOMAIN h.tables \cup {"pars"} |->
                                           IF n = "pars" THEN "null" ELSE h.tables[n]]]
       \/ /\ pc' = CreateAfter(pc)
          /\ call' = call
          /\ h' = [h EXCEPT !.tables = [n \in DOMAIN h.tables \cup {"pars"} |->
                                           IF n = "pars" THEN "ok" ELSE h.tables[n]]]
    /\ CreateKeeps

\* flags and default user parameters; create returns
CreateEnd ==
    /\ pc = "c_rest"
    /\ pc' = "c_done"
    /\ UNCHANGED <<h, call>>
    /\ CreateKeeps

InitCreate ==
    /\ eng \in {"ambi_bin", "binauraliser"}
    /\ apple = FALSE
    /\ h = NoStruct
    /\ pc = "c_entry"
    /\ call \in {[op |-> "create", handle |-> v, before |-> v, failed |-> FALSE] :
                    v \in {"null", "garbage"}}
    /\ outputs = <<>>
    /\ hist = NoHist
    /\ nBlocks = 0
    /\ nSets = 0

NextCreate == CreateMalloc \/ CreateTable \/ CreateVectors \/ CreatePars \/ CreateEnd

SpecCreate == InitCreate /\ [][NextCreate]_vars

\* C26: when an allocation fails inside create, create returns with the
\* caller's handle as it was and dereferences no null pointer
C26_AllocFailure ==
    /\ pc # "c_fault"
    /\ (pc \in {"c_ret", "c_done"} /\ call.failed) => call.handle = call.before

\* the part that holds: a failed allocation of the engine structure leaves
\* the handle as it was
AllocFailureOfStruct == pc = "c_ret" => call.handle = call.before

(* ------------------------- requests and rebuilds ------------------------- *)
\* the channel count asked for differs from the one the filterbank has
PendingCount(hh) ==
    IF IsAmbi THEN hh.new_nSH # hh.nSH ELSE hh.new_nSources # hh.nSources

\* C27: a reinit request is followed by a rebuild that starts after it; a
\* request that arrives while the flag is in-progress is not overwritten to
\* clean without being served. Here: when the filterbank rebuild has ended
\* and a request for another channel count stands, the audio thread's next
\* step leaves the flag requested
C27_RequestServed ==
    [][(AudioStep /\ pc = "tft_done" /\ h.reInitTFT = REQUESTED /\ PendingCount(h))
          => h'.reInitTFT = REQUESTED]_vars

(* ---------------------------- order presets ---------------------------- *)
\* C28: after ambi_bin_create and any ambi_bin_setInputOrderPreset calls the
\* order lies in 0..7, new_nSH = (order+1)^2 and the preset the getter
\* returns is the one whose order is in effect
C28_OrderConsistent ==
    IsAmbi =>
        /\ h.order \in 0 .. 7
        /\ h.new_nSH = (h.order + 1) * (h.order + 1)
        /\ PresetOrder(ambi_bin_get(h, "InputOrderPreset")) = h.order

(* ----------------------------- orientation ----------------------------- *)
\* the axes: names of the setter/getter pair of the angle and of the flip,
\* and the fields that store them
Axes == { [angle |-> "Yaw",   flip |-> "FlipYaw",   stored |-> "yaw",   flipped |-> "bFlipYaw"],
          [angle |-> "Pitch", flip |-> "FlipPitch", stored |-> "pitch", flipped |-> "bFlipPitch"],
          [angle |-> "Roll",  flip |-> "FlipRoll",  stored |-> "roll",  flipped |-> "bFlipRoll"] }

SetOf(hh, what, v) ==
    IF IsAmbi THEN ambi_bin_set(hh, what, v) ELSE binauraliser_set(hh, what, 0, v)
GetOf(hh, what) ==
    IF IsAmbi THEN ambi_bin_get(hh, what) ELSE binauraliser_get(hh, what, 0)

\* angles tried, in degrees
TriedAngles == {-180, -90, 0, 90, 180, 270}

RECURSIVE Oriented(_, _, _, _)
\* structure hh with flip state f and then angle a set on every axis of S
Oriented(hh, S, f, a) ==
    IF S = {} THEN hh
    ELSE LET x == CHOOSE y \in S : TRUE
         IN  Oriented(SetOf(SetOf(hh, x.flip, f), x.angle, a), S \ {x}, f, a)

\* the engine in use with every axis flipped or not and set to an angle
OrientedStates == {Oriented(h, Axes, f, a) : f \in FlagInputs, a \in {-90, 0, 90}}

\* the other axes keep their stored angle and flip state from k to g
OthersKept(k, g, x) ==
    \A y \in Axes \ {x} : g[y.stored] = k[y.stored] /\ g[y.flipped] = k[y.flipped]

FilterbankBuilt == h.hSTFT.alloc
HrtfBuilt == IF IsAmbi THEN h.pars.hrtf_fb # "none" ELSE h.hrtf_fb # "none"

\* the first process call of ambi_bin, the binauraliser_init call
FirstCall == IF IsAmbi THEN call.op = "process" /\ nBlocks = 1 ELSE call.op = "init"

\* positions of a call behind its drain
BehindDrain == {"gate1", "gate2", "load", "run", "init_end", "ret", "fault"}

\* C30: after create both reinit flags are requested; the first process call
\* (ambi_bin) or the binauraliser_init call performs the filterbank rebuild
\* and then the codec/HRTF rebuild before any block is analysed, mixed or
\* synthesised; no block is processed before both rebuilds have run once
C30_BuiltBeforeFirstBlock ==
    /\ pc = "created" => h.reInitTFT = REQUESTED /\ h[CodecFlag] = REQUESTED
    /\ pc = "created" => ~FilterbankBuilt /\ ~HrtfBuilt
    /\ (FirstCall /\ pc \in BehindDrain) =>
          /\ hist.rebTFT >= 1 /\ hist.rebCodec >= 1
          /\ FilterbankBuilt /\ HrtfBuilt
    /\ HrtfBuilt => FilterbankBuilt
    /\ (pc \in {"load", "run"} \/ hist.ran) => FilterbankBuilt /\ HrtfBuilt

\* the first process call has run both rebuilds and is about to transform
\* its block
C30_Witness ==
    /\ pc = "run" /\ FirstCall /\ IsAmbi
    /\ hist.entryTFT = REQUESTED /\ hist.entryCodec = REQUESTED
    /\ hist.rebTFT = 1 /\ hist.rebCodec = 1

\* a block of the binauraliser is about to be transformed after its init call
C30_WitnessBin ==
    /\ pc = "run" /\ IsBin /\ FilterbankBuilt /\ HrtfBuilt

\* ---------------------------------------------------------------------
\* the delay of the mixer

\* C31: after ambi_bin_init the first block that passes the gating check
\* produces all-zero mixed subbands for any input, and the input frame of
\* processed block k first influences the mixed subbands of processed block
\* k+1: init zeroes the previous tensor, nothing but a processed block writes
\* it, a processed block mixes the previous tensor only (the mix is the one
\* formed with any other analysed frame, and zero when the previous tensor is
\* zero) and then stores its own analysed frame as the previous tensor
C31_MixerDelay ==
    [][IsAmbi =>
         /\ (pc = "created" /\ pc' # pc) => h'.prev_SHframeTF = ZeroTF
         /\ (pc # "created" /\ ~ProcessedAmbi) => h'.prev_SHframeTF = h.prev_SHframeTF
         /\ ProcessedAmbi =>
               /\ h.prev_SHframeTF = ZeroTF => h'.binframeTF = ZeroBin
               /\ h'.binframeTF = ambi_binframeTF(h, call, h'.current_M, ZeroTF)
               /\ SameChannels(h'.prev_SHframeTF, h'.SHframeTF, call.nSH)]_vars

\* the second processed block of a behaviour mixes a signal
C31_Witness ==
    /\ IsAmbi /\ pc = "ret" /\ InProcessCall /\ hist.ran /\ nBlocks = 2
    /\ h.binframeTF # ZeroBin

\* a first processed block has analysed a signal and mixed silence
C31_FirstBlock ==
    /\ IsAmbi /\ pc = "ret" /\ InProcessCall /\ hist.ran
    /\ h.SHframeTF # ZeroTF /\ h.prev_SHframeTF # ZeroTF /\ h.binframeTF = ZeroBin

\* ---------------------------------------------------------------------
\* the channels above the order in use

\* the columns of two matrices and the channels of two tensors at index nSH
\* and above agree
SameAbove(M, N, S, T, nSH) ==
    /\ \A b \in Bands : \A e \in Ears : \A ch \in ShChs :
           ch >= nSH => M[b][e][ch] = N[b][e][ch]
    /\ \A b \in Bands : \A ch \in ShChs : ch >= nSH => S[b][ch] = T[b][ch]

\* C32: the end-of-block copy of ambi_bin_process writes the first nSH columns
\* of prev_M and the first nSH channels of prev_SHframeTF of every band only:
\* the entries at channel index nSH and above are as they were before the
\* step, in every step of every process call, order changes included
C32_CopyBelowOrder ==
    [][(IsAmbi /\ InProcessCall /\ AudioStep) =>
          SameAbove(h'.prev_M, h.prev_M, h'.prev_SHframeTF, h.prev_SHframeTF,
                    IF pc = "run" /\ pc' = "ret" THEN call.nSH ELSE 0)]_vars

\* after a change to the omni preset a block was processed on one channel and
\* the previous matrix and tensor still hold the first-order block's channels
C32_Witness ==
    /\ IsAmbi /\ pc = "ret" /\ InProcessCall /\ hist.ran /\ call.nSH = 1
    /\ \E b \in Bands : \E ch \in ShChs :
          /\ ch >= 1
          /\ h.prev_SHframeTF[b][ch] # [t \in Slots |-> 0]
          /\ \E e \in Ears : h.prev_M[b][e][ch] # 0

\* ---------------------------------------------------------------------
\* the normalisation convention

\* the sample the load stores for channel ch before the normalisation switch
Loaded(c, ch, s) == IF ch < MIN(MAX_NUM_SH_SIGNALS, c.nInputs) THEN InSample(c, ch, s) ELSE 0

\* C33: in a processed ambi_bin block with SN3D normalisation every input
\* channel ch below nSH is scaled exactly once, by sqrt(2n+1) of the degree n
\* with n^2 <= ch < (n+1)^2, and no channel at nSH or above is scaled; with
\* N3D normalisation no channel is scaled
C33_ScaledOnce ==
    (IsAmbi /\ pc = "run" /\ InBounds(h, call.nSH)) =>
      \A ch \in ShChs : \A s \in Samples :
        /\ call.norm = NORM_SN3D =>
              Cardinality(ambi_ScaleDegrees(call, ch)) = IF ch < call.nSH THEN 1 ELSE 0
        /\ ambi_SHFrameTD(call)[ch][s] =
              IF call.norm = NORM_SN3D /\ ch < call.nSH
              THEN FMul(Loaded(call, ch, s), SqrtOdd(DegreeOf(ch)))
              ELSE Loaded(call, ch, s)

\* a first-order SN3D block was processed and its analysed frame holds a
\* sample of channel 1 scaled by sqrt(3)
C33_Witness ==
    /\ IsAmbi /\ pc = "ret" /\ InProcessCall /\ hist.ran
    /\ call.norm = NORM_SN3D /\ call.nSH = 4 /\ call.nInputs > 1
    /\ \E b \in Bands : \E t \in Slots : \E s \in Samples :
          /\ h.SHframeTF[b][1][t] # 0
          /\ h.SHframeTF[b][1][t] = FMul(InSample(call, 1, s), SqrtOdd(1))

\* ---------------------------------------------------------------------
\* saf_sort.c: the sorts

\* the values of the vectors: integers for sorti, floats and doubles with a
\* not-a-number among them for sortf and sortd
SortInts   == {-1, 0, 2}
SortFloats == {-1500, 0, 2500, NAN}

\* a < b of C: false when either side is not a number
Less(a, b) == a # NAN /\ b # NAN /\ a < b

\* cmp_asc_int, cmp_asc_float, cmp_asc_double
cmp_asc(a, b) == IF Less(a.val, b.val) THEN -1 ELSE IF Less(b.val, a.val) THEN 1 ELSE 0

\* cmp_desc_int, cmp_desc_float, cmp_desc_double
cmp_desc(a, b) == IF Less(b.val, a.val) THEN -1 ELSE IF Less(a.val, b.val) THEN 1 ELSE 0

\* the comparison function the call hands to qsort: if(descendFLAG)
SortCmp(flag, a, b) == IF flag # 0 THEN cmp_desc(a, b) ELSE cmp_asc(a, b)

\* the rearrangements of n elements
Perms(n) == {p \in [0 .. (n - 1) -> 0 .. (n - 1)] :
                \A i, j \in 0 .. (n - 1) : i # j => p[i] # p[j]}

\* what qsort may leave in data: a rearrangement in the order of the
\* comparison function, equal elements in any order; any rearrangement when
\* the function is no ordering of the elements (a not-a-number compares equal
\* to everything), which the C library leaves undefined
qsort(data, n, flag) ==
    LET ordering == \A i \in 0 .. (n - 1) : data[i].val # NAN
        results  == {[i \in 0 .. (n - 1) |-> data[p[i]]] : p \in Perms(n)}
    IN  {r \in results :
            ordering => \A i, j \in 0 .. (n - 1) : i < j => SortCmp(flag, r[i], r[j]) <= 0}

\* the three vectors of a sort call after its write loop
SortWritten(mem, c, data, n) ==
    [in_vec     |-> IF c.out_vec = "null" THEN [i \in 0 .. (n - 1) |-> data[i].val]
                    ELSE mem.in_vec,
     out_vec    |-> IF c.out_vec = "null" THEN mem.out_vec
                    ELSE [i \in 0 .. (n - 1) |-> data[i].val],
     new_idices |-> IF c.new_idices = "null" THEN mem.new_idices
                    ELSE [i \in 0 .. (n - 1) |-> data[i].idx]]

SortOps == {"sorti", "sortf", "sortd"}

\* sorti, sortf, sortd: fill data, qsort, write loop
sortCall ==
    /\ pc = "s_entry" /\ call.op \in SortOps
    /\ \E r \in qsort([i \in 0 .. (call.len - 1) |-> [val |-> h.in_vec[i], idx |-> i]],
                       call.len, call.descendFLAG) :
          h' = SortWritten(h, call, r, call.len)
    /\ pc' = "s_done"
    /\ UNCHANGED <<eng, apple, call, outputs, hist, nBlocks, nSets>>

\* the vectors of length n over a set of values
Vectors(vals, n) == [0 .. (n - 1) -> vals]

\* a buffer of the caller for a result, with whatever it held; no buffer
\* (of length 0) behind a NULL pointer
UNWRITTEN == -7777
Unwritten(n) == [i \in 0 .. (n - 1) |-> UNWRITTEN]
Pointer(given) == IF given THEN "given" ELSE "null"

\* the values a sort is given
SortValues(o) == IF o = "sorti" THEN SortInts ELSE SortFloats

\* the calls of a sort: every vector up to MaxLen elements, with and without
\* out_vec and new_idices, descendFLAG 0, 1 and 2
InitSortCall ==
    \E o \in SortOps, n \in 0 .. MaxLen, f \in {0, 1, 2}, ho \in BOOLEAN, hi \in BOOLEAN :
      \E v \in Vectors(SortValues(o), n) :
        /\ call = [op |-> o, len |-> n, in_vec |-> v, descendFLAG |-> f,
                   out_vec |-> Pointer(ho), new_idices |-> Pointer(hi)]
        /\ h = [in_vec |-> v,
                out_vec |-> Unwritten(IF ho THEN n ELSE 0),
                new_idices |-> Unwritten(IF hi THEN n ELSE 0)]

(* -------------------- saf_sort.c: the nearest grid point -------------------- *)
\* sinf and cosf of an angle of the call, which is in degrees when degFLAG is
\* set; not a number for a not-a-number
AngleOf(x, degFLAG) == IF degFLAG # 0 THEN DEG2RAD(x) ELSE x
SinF(x, degFLAG) == IF x = NAN THEN NAN ELSE Sin(AngleOf(x, degFLAG)) * ONE
CosF(x, degFLAG) == IF x = NAN THEN NAN ELSE Cos(AngleOf(x, degFLAG)) * ONE

\* "convert sph coords into Cartesian coords": x, y, z of <<azimuth, elevation>>
sph2xyz(dir, degFLAG) ==
    LET rcoselev == CosF(dir[2], degFLAG)
    IN  <<FMul(rcoselev, CosF(dir[1], degFLAG)),
          FMul(rcoselev, SinF(dir[1], degFLAG)),
          SinF(dir[2], degFLAG)>>

\* current_val: the dot product of a grid and a target vector
DotXyz(g, t) == FAdd(FAdd(FMul(g[1], t[1]), FMul(g[2], t[2])), FMul(g[3], t[3]))

\* max_val = -2.23e10f: below every dot product
MAX_VAL_START == -2000000000

\* the body of the loop over j: if(current_val > max_val)
ClosestStep(acc, j, val) ==
    IF Less(acc.max_val, val) THEN [idx |-> j, max_val |-> val] ELSE acc

RECURSIVE ClosestLoop(_, _, _, _, _)
\* idx_closest[i] and max_val after the grid points below n: idx_closest[i]
\* keeps what the caller's buffer held until a dot product exceeds max_val
ClosestLoop(grid, target, degFLAG, old, n) ==
    IF n = 0 THEN [idx |-> old, max_val |-> MAX_VAL_START]
    ELSE ClosestStep(ClosestLoop(grid, target, degFLAG, old, n - 1), n - 1,
                     DotXyz(sph2xyz(grid[n - 1], degFLAG), sph2xyz(target, degFLAG)))

\* what dirs_closest[i] may receive: the grid direction at idx_closest[i]; the
\* index is read uninitialised when the loop never wrote it, and the read
\* then yields any grid direction or memory outside the grid
DirsRead(grid, nGrid, idx) ==
    IF idx = UNWRITTEN THEN {grid[j] : j \in 0 .. (nGrid - 1)} \cup {<<UNWRITTEN, UNWRITTEN>>}
    ELSE {grid[idx]}

\* findClosestGridPoints: conversion, search loop, optional directions
findClosestCall ==
    /\ pc = "s_entry" /\ call.op = "findClosestGridPoints"
    /\ LET targets == 0 .. (call.nTarget - 1)
           idx   == [i \in targets |->
                       ClosestLoop(call.grid_dirs, call.target_dirs[i], call.degFLAG,
                                   h.idx_closest[i], call.nGrid).idx]
           reads == [i \in targets |-> DirsRead(call.grid_dirs, call.nGrid, idx[i])]
       IN  \E dirs \in {f \in [targets -> UNION {reads[i] : i \in targets}] :
                            \A i \in targets : f[i] \in reads[i]} :
             h' = [idx_closest  |-> idx,
                   dirs_closest |-> IF call.dirs_closest = "null" THEN h.dirs_closest
                                    ELSE dirs]
    /\ pc' = "s_done"
    /\ UNCHANGED <<eng, apple, call, outputs, hist, nBlocks, nSets>>

\* the angles of the directions, in quarter turns: azimuths, elevations, and
\* a not-a-number azimuth among the targets
GridAzimuths == {0, 1, 2}
GridElevations == {0, 1}
GridDirs(degFLAG) ==
    {<<IF degFLAG # 0 THEN RAD2DEG(a) ELSE a, IF degFLAG # 0 THEN RAD2DEG(e) ELSE e>> :
        a \in GridAzimuths, e \in GridElevations}
TargetDirs(degFLAG) == GridDirs(degFLAG) \cup {<<NAN, 0>>}

\* the calls of findClosestGridPoints: grids of 0 to MaxGrid directions,
\* 1 to MaxTarget targets, degrees and radians, with and without dirs_closest
InitClosestCall ==
    \E d \in {0, 1}, ng \in 0 .. MaxGrid, nt \in 1 .. MaxTarget, hd \in BOOLEAN :
      \E g \in Vectors(GridDirs(d), ng), t \in Vectors(TargetDirs(d), nt) :
        /\ call = [op |-> "findClosestGridPoints", grid_dirs |-> g, nGrid |-> ng,
                   target_dirs |-> t, nTarget |-> nt, degFLAG |-> d,
                   dirs_closest |-> Pointer(hd), angle_diff |-> "null"]
        /\ h = [idx_closest |-> Unwritten(nt),
                dirs_closest |-> Unwritten(IF hd THEN nt ELSE 0)]

InitSort ==
    /\ eng = "saf_sort"
    /\ apple = FALSE
    /\ pc = "s_entry"
    /\ (InitSortCall \/ InitClosestCall)
    /\ outputs = <<>>
    /\ hist = NoHist
    /\ nBlocks = 0
    /\ nSets = 0

NextSort == sortCall \/ findClosestCall

SpecSort == InitSort /\ [][NextSort]_vars

\* the vector a sort call has written its result to
SortOut == IF call.out_vec = "null" THEN h.in_vec ELSE h.out_vec

\* out is a rearrangement of in
Rearranged(in, out, n) == \E p \in Perms(n) : \A i \in 0 .. (n - 1) : out[i] = in[p[i]]

\* C34: sorti, sortf and sortd produce a permutation of the len input values
\* that is descending when descendFLAG is 1 and ascending for every other
\* descendFLAG value; new_idices[i], when requested, is the original position
\* of the i-th output value; the result is in out_vec with in_vec unchanged
\* when out_vec is given and overwrites in_vec otherwise
C34_Sorted ==
    (pc = "s_done" /\ call.op \in SortOps) =>
      LET n == call.len
          out == SortOut
      IN  /\ Rearranged(call.in_vec, out, n)
          /\ \A i, j \in 0 .. (n - 1) :
                i < j => IF call.descendFLAG = 1 THEN ~Less(out[i], out[j])
                         ELSE ~Less(out[j], out[i])
          /\ call.new_idices # "null" =>
                \A i \in 0 .. (n - 1) : out[i] = call.in_vec[h.new_idices[i]]
          /\ call.out_vec # "null" => h.in_vec = call.in_vec

\* the part that holds for every vector without a not-a-number: a permutation,
\* descending for every descendFLAG other than 0 and ascending for 0, with
\* the indices and the choice of the written vector as stated
SortedByFlagTruth ==
    (pc = "s_done" /\ call.op \in SortOps /\ \A i \in 0 .. (call.len - 1) : call.in_vec[i] # NAN) =>
      LET n == call.len
          out == SortOut
      IN  /\ Rearranged(call.in_vec, out, n)
          /\ \A i, j \in 0 .. (n - 1) :
                i < j => IF call.descendFLAG # 0 THEN out[i] >= out[j] ELSE out[i] <= out[j]
          /\ call.new_idices # "null" =>
                /\ \A i \in 0 .. (n - 1) : out[i] = call.in_vec[h.new_idices[i]]
                /\ \A i, j \in 0 .. (n - 1) : i # j => h.new_idices[i] # h.new_idices[j]
          /\ call.out_vec # "null" => h.in_vec = call.in_vec

\* a sort of integers with descendFLAG 2 has left them descending
SortFlagTwo ==
    /\ pc = "s_done" /\ call.op = "sorti" /\ call.descendFLAG = 2
    /\ call.len = 2 /\ SortOut[0] > SortOut[1]

\* the dot product of grid point j and target i of the call
DotOf(j, i) == DotXyz(sph2xyz(call.grid_dirs[j], call.degFLAG),
                      sph2xyz(call.target_dirs[i], call.degFLAG))

\* j is the lowest grid index whose dot product with target i is the maximum
NearestFirst(j, i) ==
    /\ j \in 0 .. (call.nGrid - 1)
    /\ \A k \in 0 .. (call.nGrid - 1) :
          /\ ~Less(DotOf(j, i), DotOf(k, i))
          /\ k < j => Less(DotOf(k, i), DotOf(j, i))

\* C35: for every target i findClosestGridPoints sets idx_closest[i] to the
\* lowest grid index with the maximum dot product, dirs_closest[i], when
\* requested, is the grid direction at that index, and for nGrid >= 1 every
\* idx_closest[i] is written and lies in [0, nGrid)
C35_Nearest ==
    (pc = "s_done" /\ call.op = "findClosestGridPoints" /\ call.nGrid >= 1) =>
      \A i \in 0 .. (call.nTarget - 1) :
        /\ h.idx_closest[i] \in 0 .. (call.nGrid - 1)
        /\ NearestFirst(h.idx_closest[i], i)
        /\ call.dirs_closest # "null" =>
              h.dirs_closest[i] = call.grid_dirs[h.idx_closest[i]]

\* the part that holds: the same for the calls whose targets are numbers
NearestOfNumbers ==
    (/\ pc = "s_done" /\ call.op = "findClosestGridPoints" /\ call.nGrid >= 1
     /\ \A i \in 0 .. (call.nTarget - 1) : call.target_dirs[i][1] # NAN) =>
      \A i \in 0 .. (call.nTarget - 1) :
        /\ h.idx_closest[i] \in 0 .. (call.nGrid - 1)
        /\ NearestFirst(h.idx_closest[i], i)
        /\ call.dirs_closest # "null" =>
              h.dirs_closest[i] = call.grid_dirs[h.idx_closest[i]]

\* two grid points are equally near a target and the first was taken
NearestTie ==
    /\ pc = "s_done" /\ call.op = "findClosestGridPoints" /\ call.nGrid = 2
    /\ call.grid_dirs[0] # call.grid_dirs[1]
    /\ call.target_dirs[0][1] # NAN
    /\ DotOf(0, 0) = DotOf(1, 0) /\ h.idx_closest[0] = 0

\* ---------------------------------------------------------------------
\* destroy: the buffers of an instance

\* the buffers create allocates (lines 34, 41-47, 52 of ambi_bin.c; lines 37,
\* 44-54 of binauraliser.c); the vectors of a table count as one buffer
CreatedBuffers ==
    IF IsAmbi THEN {"pData", "STFTOutputFrameTF", "STFTOutputFrameTF.vec", "pars"}
    ELSE {"pData", "STFTInputFrameTF", "STFTInputFrameTF.vec", "tempHopFrameTD",
          "STFTOutputFrameTF", "STFTOutputFrameTF.vec"}

\* the buffers the rebuilds of the filterbank and of the codec / the HRTFs
\* allocate and store in the instance
BuiltBuffers ==
    IF IsAmbi THEN {"hSTFT", "STFTInputFrameTF", "STFTInputFrameTF.vec", "tempHopFrameTD",
                    "hrtf_fb", "itds_s", "hrirs", "hrir_dirs_deg"}
    ELSE {"hSTFT", "hrtf_vbap_gtableComp", "hrtf_vbap_gtableIdx", "hrtf_fb",
          "hrtf_fb_mag", "itds_s", "hrirs", "hrir_dirs_deg"}

\* the buffers destroy frees, in its order; each is freed when the field that
\* points to it is not NULL
DestroyFrees ==
    IF IsAmbi
    THEN <<"hSTFT", "STFTInputFrameTF.vec", "STFTOutputFrameTF.vec", "STFTInputFrameTF",
           "STFTOutputFrameTF", "tempHopFrameTD", "hrtf_fb", "itds_s", "hrirs",
           "hrir_dirs_deg", "pData">>
    ELSE <<"hSTFT", "STFTInputFrameTF.vec", "STFTOutputFrameTF.vec", "STFTInputFrameTF",
           "STFTOutputFrameTF", "tempHopFrameTD", "hrtf_vbap_gtableComp",
           "hrtf_vbap_gtableIdx", "hrtf_fb", "hrtf_fb_mag", "itds_s", "hrirs",
           "hrir_dirs_deg", "pData">>

\* the string the n-th setSofaFilePath call allocates
PathBuffer(n) == CASE n = 0 -> "none" [] n = 1 -> "path1" [] n = 2 -> "path2"
                   [] OTHER -> "path3"

\* ambi_bin_setSofaFilePath, binauraliser_setSofaFilePath: a new string is
\* allocated and sofa_filepath is pointed at it
setSofaFilePathAlloc ==
    /\ pc = "d_idle" /\ call.handle = "live"
    /\ nSets < MaxPaths
    /\ nSets' = nSets + 1
    /\ h' = [h EXCEPT !.owned = @ \cup {PathBuffer(nSets + 1)},
                      !.fields = (@ \ {PathBuffer(nSets)}) \cup {PathBuffer(nSets + 1)}]
    /\ UNCHANGED <<eng, apple, pc, call, outputs, hist, nBlocks>>

\* the entry of destroy: pData is read from the handle; ambi_bin_destroy
\* reads pData->pars before it tests pData
destroyEnter ==
    /\ pc = "d_idle"
    /\ pc' = IF call.handle = "null"
             THEN (IF IsAmbi THEN "d_fault" ELSE "d_done")
             ELSE "d_free"
    /\ UNCHANGED <<eng, apple, h, call, outputs, hist, nBlocks, nSets>>

\* the next free of destroy: skipped when the field is NULL
destroyFree ==
    /\ pc = "d_free"
    /\ LET b == DestroyFrees[nBlocks + 1]
       IN  h' = IF b \in h.fields
                THEN [h EXCEPT !.frees = [@ EXCEPT ![b] = @ + 1]]
                ELSE h
    /\ nBlocks' = nBlocks + 1
    /\ pc' = IF nBlocks + 1 = Len(DestroyFrees) THEN "d_done" ELSE "d_free"
    /\ UNCHANGED <<eng, apple, call, outputs, hist, nSets>>

AllBuffers == {"pData", "pars", "STFTOutputFrameTF", "STFTOutputFrameTF.vec",
               "STFTInputFrameTF", "STFTInputFrameTF.vec", "tempHopFrameTD", "hSTFT",
               "hrtf_vbap_gtableComp", "hrtf_vbap_gtableIdx", "hrtf_fb", "hrtf_fb_mag",
               "itds_s", "hrirs", "hrir_dirs_deg", "path1", "path2", "path3"}

\* a NULL handle, an instance after create, an instance after create and its
\* first rebuilds; owned are the buffers the instance allocated, fields the
\* buffers a field of the instance points to
InitDestroy ==
    /\ eng \in {"ambi_bin", "binauraliser"}
    /\ apple = FALSE
    /\ pc = "d_idle"
    /\ \E hd \in {"null", "live"}, built \in BOOLEAN :
          /\ call = [op |-> "destroy", handle |-> hd]
          /\ LET bufs == IF hd = "null" THEN {}
                         ELSE CreatedBuffers \cup (IF built THEN BuiltBuffers ELSE {})
             IN  h = [owned |-> bufs, fields |-> bufs, frees |-> [b \in AllBuffers |-> 0]]
    /\ outputs = <<>>
    /\ hist = NoHist
    /\ nBlocks = 0
    /\ nSets = 0

NextDestroy == setSofaFilePathAlloc \/ destroyEnter \/ destroyFree

SpecDestroy == InitDestroy /\ [][NextDestroy]_vars

\* C36: destroy called on a handle whose pointer is NULL accesses no memory
\* through it, and after destroy of a live engine every buffer the instance
\* allocated, the codec parameter block and every SOFA path string stored by
\* setSofaFilePath included, has been freed exactly once
C36_Destroy ==
    /\ pc # "d_fault"
    /\ (pc = "d_done" /\ call.handle = "live") => \A b \in h.owned : h.frees[b] = 1

\* the part that holds: binauraliser_destroy leaves a NULL handle alone, no
\* buffer is freed twice or without having been allocated, and every buffer
\* other than the codec parameter block and the path strings is freed
DestroyButParsAndPaths ==
    /\ (IsBin /\ call.handle = "null") => (pc # "d_fault" /\ \A b \in AllBuffers : h.frees[b] = 0)
    /\ \A b \in AllBuffers : h.frees[b] <= 1 /\ (h.frees[b] = 1 => b \in h.owned)
    /\ (pc = "d_done" /\ call.handle = "live") =>
          \A b \in h.owned \ {"pars", "path1", "path2", "path3"} : h.frees[b] = 1

\* an instance with two path strings set was destroyed
DestroyedWithPaths ==
    /\ pc = "d_done" /\ call.handle = "live" /\ nSets = 2
    /\ h.frees["pData"] = 1 /\ h.frees["path1"] = 0 /\ h.frees["path2"] = 0
====
